---- MODULE Spec2Model ----
(***************************************************************************)
(* Model of the brief-assembly pipeline of meeting-brief-agent:            *)
(*   backend/app/agents/orchestrator.py      (BriefOrchestrator)           *)
(*   backend/app/agents/context_gatherer.py  (ContextGathererAgent)        *)
(*   backend/app/agents/insight_extractor.py (InsightExtractorAgent)       *)
(*   backend/app/api/meetings.py             (generate_meeting_brief)      *)
(*                                                                         *)
(* Text that the code slices or case-folds (descriptions, contents,        *)
(* topics, titles) is a sequence of one-character strings, so that [:n]    *)
(* and .lower() are computed, not assumed.  Opaque values (e-mail          *)
(* addresses, status, source, priority) are TLA+ strings; Python's None    *)
(* in such a field is the string "None".                                   *)
(***************************************************************************)
EXTENDS Integers, Sequences, FiniteSets, TLC

VARIABLES
    pc,                  \* position of generate_brief (orchestrator.py:72-111)
    generated,           \* GeneratedBrief returned by brief_generator.generate
    insights,            \* InsightExtractionResult returned by insight_extractor.extract
    action_items,        \* local of generate_brief, orchestrator.py:73
    talking_points,      \* local of generate_brief, orchestrator.py:78
    risks_opportunities, \* local of generate_brief, orchestrator.py:83
    brief,               \* the Brief built at orchestrator.py:92-109
    prov,                \* history: for each final list, where each entry came from
    gpc,                 \* position of ContextGathererAgent.gather
    toggles,             \* include_email / include_calendar / include_crm
    mcp,                 \* self.mcp: per source "absent", "disabled" or "enabled"
    participants,        \* the participants argument of gather
    cursor,              \* index of the participant a fetch loop is at
    contact,             \* gather_crm_context's contact of the current participant
    email_data,          \* gather's email_data
    calendar_data,       \* gather's calendar_data
    crm_data,            \* gather's crm_data
    sources_accessed,    \* gather's sources_accessed
    attempted,           \* history: sources whose fetch block was entered
    errored,             \* history: sources whose fetch raised
    raised_in,           \* stage an exception escaped gather from, or "None"
    context,             \* the GatheredContext gather returned
    caller,              \* who awaits generate_brief: "endpoint" or "direct"
    data_sources,        \* generate_brief's data_sources, orchestrator.py:37, 50
    extract_call,        \* history: the arguments extract was called with
    generate_call,       \* history: the context generate was called with
    completed,           \* history: the steps 2 and 3 that returned a result
    db,                  \* the briefs table: the BriefDB records committed
    ecall,               \* a call of an InsightExtractorAgent entry point
    interactions,        \* what that call submitted to the extraction chain
    cal_call,            \* a call of gather_calendar_context
    cal_result,          \* what that call returned
    crm_arg,             \* the crm_data of a call of _format_crm_context
    crm_text,            \* what that call returned
    issued,              \* history: the Briefs generate_brief handed the endpoint
    response,            \* the last response of the briefs API
    runs                 \* the generate_brief calls in flight, by request

mergeVars == <<pc, generated, insights, action_items, talking_points,
               risks_opportunities, brief, prov>>
gatherVars == <<gpc, toggles, mcp, participants, cursor, contact, email_data,
                calendar_data, crm_data, sources_accessed, attempted,
                errored, raised_in, context>>
pipeVars == <<caller, data_sources, extract_call, generate_call, completed, db>>
extractVars == <<ecall, interactions>>
calendarVars == <<cal_call, cal_result>>
crmVars == <<crm_arg, crm_text>>
apiVars == <<issued, response>>
laterVars == <<crmVars, apiVars, runs>>
otherVars == <<pipeVars, extractVars, calendarVars, laterVars>>
vars == <<mergeVars, gatherVars, otherVars>>

----------------------------------------------------------------------------
(* Python primitives *)

None == "None"

\* a text field holding None instead of a string
NoneText == <<None>>

\* None where the code expects a dictionary or an object
NoRecord == [none |-> TRUE]

Min(a, b) == IF a < b THEN a ELSE b

\* s[:n] for n >= 0
Slice(s, n) == SubSeq(s, 1, Min(n, Len(s)))

\* s[-n:] for n > 0
Tail_(s, n) == SubSeq(s, Len(s) - Min(n, Len(s)) + 1, Len(s))

UpperCase == <<"A","B","C","D","E","F","G","H","I","J","K","L","M",
               "N","O","P","Q","R","S","T","U","V","W","X","Y","Z">>
LowerCase == <<"a","b","c","d","e","f","g","h","i","j","k","l","m",
               "n","o","p","q","r","s","t","u","v","w","x","y","z">>

ToLower ==
    [u \in {UpperCase[k] : k \in 1..26} |->
        LowerCase[CHOOSE k \in 1..26 : UpperCase[k] = u]]

LowerChar(c) == IF c \in DOMAIN ToLower THEN ToLower[c] ELSE c

\* str.lower()
Lower(s) == [i \in 1..Len(s) |-> LowerChar(s[i])]

\* dict.get(k, default)
Get(d, k, default) == IF k \in DOMAIN d THEN d[k] ELSE default

Rep(c, n) == [i \in 1..n |-> c]

----------------------------------------------------------------------------
(* Program constants of orchestrator.py *)

KeyLen == 50
ActionCap == 10
PointCap == 8
RiskCap == 6
ConcernPointCap == 3
OppPointCap == 2
CrmLineCap == 3
TitleLen == 50

AddressConcern ==
    <<"A","d","d","r","e","s","s"," ","c","o","n","c","e","r","n",":"," ">>
ExploreOpportunity ==
    <<"E","x","p","l","o","r","e"," ","o","p","p","o","r","t","u","n","i","t","y",":"," ">>

----------------------------------------------------------------------------
(* BriefOrchestrator._merge_action_items, orchestrator.py:113-145.         *)
(* Every entry carries, beside the ActionItem, the list and index it was   *)
(* built from; the code's return value is the projection on .item.         *)

\* mutant of dedup_key: the key is not case-folded
dedup_key_no_lower(text) == Slice(text, KeyLen)

\* item.get("description", "")[:50].lower()  /  insight.content[:50].lower()
dedup_key(text) == Lower(Slice(text, KeyLen))

\* ActionItem(...) of orchestrator.py:126-132
ActionItemOfDraft(item) ==
    [description |-> Get(item, "description", <<>>),
     assignee    |-> Get(item, "assignee", None),
     due_date    |-> Get(item, "due_date", None),
     status      |-> Get(item, "status", "open"),
     source      |-> Get(item, "source", None)]

\* mutant of ActionItemOfInsight: the description is cut to the key
\* length and the assignee is the last participant
ActionItemOfInsight_cut_last(insight) ==
    [description |-> Slice(insight.content, KeyLen),
     assignee    |-> IF insight.participants # <<>>
                     THEN insight.participants[Len(insight.participants)]
                     ELSE None,
     due_date    |-> None,
     status      |-> insight.status,
     source      |-> insight.source]

\* ActionItem(...) of orchestrator.py:138-143; due_date keeps its default
ActionItemOfInsight(insight) ==
    [description |-> insight.content,
     assignee    |-> IF insight.participants # <<>>
                     THEN insight.participants[1] ELSE None,
     due_date    |-> None,
     status      |-> insight.status,
     source      |-> insight.source]

\* mutant of AddIfUnseen: a later item replaces the earlier one of its key
AddIfUnseen_keep_last(acc, key, entry) ==
    IF key \in acc.seen
    THEN [items |-> [i \in DOMAIN acc.items |->
                        IF dedup_key(acc.items[i].item.description) = key
                        THEN entry ELSE acc.items[i]],
          seen  |-> acc.seen]
    ELSE [items |-> Append(acc.items, entry), seen |-> acc.seen \cup {key}]

\* if key not in seen: seen.add(key); items.append(entry)
AddIfUnseen(acc, key, entry) ==
    IF key \in acc.seen
    THEN acc
    ELSE [items |-> Append(acc.items, entry), seen |-> acc.seen \cup {key}]

\* for item in brief_items: ...   (orchestrator.py:122-132)
RECURSIVE DraftItemLoop(_, _, _)
DraftItemLoop(brief_items, i, acc) ==
    IF i > Len(brief_items)
    THEN acc
    ELSE DraftItemLoop(brief_items, i + 1,
             AddIfUnseen(acc,
                 dedup_key(Get(brief_items[i], "description", <<>>)),
                 [item   |-> ActionItemOfDraft(brief_items[i]),
                  origin |-> "draft", idx |-> i]))

\* for insight in insight_items: ...   (orchestrator.py:134-143)
RECURSIVE InsightItemLoop(_, _, _)
InsightItemLoop(insight_items, i, acc) ==
    IF i > Len(insight_items)
    THEN acc
    ELSE InsightItemLoop(insight_items, i + 1,
             AddIfUnseen(acc,
                 dedup_key(insight_items[i].content),
                 [item   |-> ActionItemOfInsight(insight_items[i]),
                  origin |-> "insight", idx |-> i]))

EmptyAcc == [items |-> <<>>, seen |-> {}]

\* mutant: the list is cut to the cap before the insights are merged in
merge_action_items_cut_first(brief_items, insight_items) ==
    InsightItemLoop(insight_items, 1,
        DraftItemLoop(Slice(brief_items, ActionCap), 1, EmptyAcc)).items

\* mutant: the insight loop runs before the draft loop
merge_action_items_insights_first(brief_items, insight_items) ==
    Slice(DraftItemLoop(brief_items, 1,
              InsightItemLoop(insight_items, 1, EmptyAcc)).items,
          ActionCap)

_merge_action_items(brief_items, insight_items) ==
    Slice(InsightItemLoop(insight_items, 1,
              DraftItemLoop(brief_items, 1, EmptyAcc)).items,
          ActionCap)

----------------------------------------------------------------------------
(* BriefOrchestrator._enhance_talking_points, orchestrator.py:147-181 *)

\* TalkingPoint(...) of orchestrator.py:156-161
TalkingPointOfDraft(point) ==
    [topic    |-> Get(point, "topic", <<>>),
     context  |-> Get(point, "context", <<>>),
     priority |-> Get(point, "priority", "medium"),
     source   |-> Get(point, "source", None)]

\* mutant: the whole f-string is cut to 50 characters
TalkingPointOfConcern_cut_whole(concern) ==
    [topic    |-> Slice(AddressConcern \o concern.content, KeyLen),
     context  |-> concern.content,
     priority |-> "high",
     source   |-> concern.source]

\* TalkingPoint(...) of orchestrator.py:165-170
TalkingPointOfConcern(concern) ==
    [topic    |-> AddressConcern \o Slice(concern.content, KeyLen),
     context  |-> concern.content,
     priority |-> "high",
     source   |-> concern.source]

\* TalkingPoint(...) of orchestrator.py:174-179
TalkingPointOfOpportunity(opp) ==
    [topic    |-> ExploreOpportunity \o Slice(opp.content, KeyLen),
     context  |-> opp.content,
     priority |-> "medium",
     source   |-> opp.source]

\* the entries built by one loop, each with the list and index it came from
Tag(built, origin) ==
    [i \in 1..Len(built) |-> [item |-> built[i], origin |-> origin, idx |-> i]]

\* for point in points: enhanced.append(TalkingPoint(...))
DraftPoints(points) ==
    Tag([i \in 1..Len(points) |-> TalkingPointOfDraft(points[i])], "draft")

\* for concern in <concerns>: enhanced.append(TalkingPoint(...))
ConcernPoints(concerns) ==
    Tag([i \in 1..Len(concerns) |-> TalkingPointOfConcern(concerns[i])], "concern")

\* for opp in <opportunities>: enhanced.append(TalkingPoint(...))
OpportunityPoints(opps) ==
    Tag([i \in 1..Len(opps) |-> TalkingPointOfOpportunity(opps[i])], "opportunity")

\* mutant: every concern yields a point (no [:3])
enhance_talking_points_all_concerns(points, ins) ==
    Slice(DraftPoints(points)
            \o ConcernPoints(ins.concerns)
            \o OpportunityPoints(Slice(ins.opportunities, OppPointCap)),
          PointCap)

\* mutant: the list is not cut to 8
enhance_talking_points_no_cap(points, ins) ==
    DraftPoints(points)
        \o ConcernPoints(Slice(ins.concerns, ConcernPointCap))
        \o OpportunityPoints(Slice(ins.opportunities, OppPointCap))

_enhance_talking_points(points, ins) ==
    Slice(DraftPoints(points)
            \o ConcernPoints(Slice(ins.concerns, ConcernPointCap))
            \o OpportunityPoints(Slice(ins.opportunities, OppPointCap)),
          PointCap)

----------------------------------------------------------------------------
(* BriefOrchestrator._merge_risks_opportunities, orchestrator.py:183-219 *)

\* RiskOpportunity(...) of orchestrator.py:193-199
RiskOfDraft(item) ==
    [type               |-> Get(item, "type", "risk"),
     title              |-> Get(item, "title", <<>>),
     description        |-> Get(item, "description", <<>>),
     severity           |-> Get(item, "severity", "medium"),
     recommended_action |-> Get(item, "recommended_action", None)]

\* RiskOpportunity(...) of orchestrator.py:202-208
RiskOfConcern(concern) ==
    [type               |-> "risk",
     title              |-> Slice(concern.content, TitleLen),
     description        |-> concern.content,
     severity           |-> concern.priority,
     recommended_action |-> None]

\* RiskOpportunity(...) of orchestrator.py:211-217
RiskOfOpportunity(opp) ==
    [type               |-> "opportunity",
     title              |-> Slice(opp.content, TitleLen),
     description        |-> opp.content,
     severity           |-> opp.priority,
     recommended_action |-> None]

\* for item in existing: items.append(RiskOpportunity(...))
DraftRisks(existing) ==
    Tag([i \in 1..Len(existing) |-> RiskOfDraft(existing[i])], "draft")

\* for concern in concerns: items.append(RiskOpportunity(...))
ConcernRisks(concerns) ==
    Tag([i \in 1..Len(concerns) |-> RiskOfConcern(concerns[i])], "concern")

\* for opp in opportunities: items.append(RiskOpportunity(...))
OpportunityRisks(opps) ==
    Tag([i \in 1..Len(opps) |-> RiskOfOpportunity(opps[i])], "opportunity")

\* mutant: the cap keeps the last entries, items[-6:]
merge_risks_opportunities_keep_last(existing, concerns, opportunities) ==
    Tail_(DraftRisks(existing)
            \o ConcernRisks(concerns)
            \o OpportunityRisks(opportunities),
          RiskCap)

\* mutant: opportunities are appended before concerns
merge_risks_opportunities_opps_first(existing, concerns, opportunities) ==
    Slice(DraftRisks(existing)
            \o OpportunityRisks(opportunities)
            \o ConcernRisks(concerns),
          RiskCap)

_merge_risks_opportunities(existing, concerns, opportunities) ==
    Slice(DraftRisks(existing)
            \o ConcernRisks(concerns)
            \o OpportunityRisks(opportunities),
          RiskCap)

\* the list the code returns: the entries without their history tags
Items(tagged) == [i \in 1..Len(tagged) |-> tagged[i].item]
Tags(tagged) == [i \in 1..Len(tagged) |-> [origin |-> tagged[i].origin,
                                            idx    |-> tagged[i].idx]]

----------------------------------------------------------------------------
(* Bounds of the inputs *)

MaxDraftItems == 11      \* longest run of key-distinct draft action items
MaxExtraDraftItems == 1  \* further draft action items, free in content
MaxInsightItems == 2     \* extracted action-item insights
MaxDraftPoints == 9      \* key-distinct draft talking points
MaxExtraPoints == 1      \* further draft talking points, free in content
MaxDraftRisks == 7       \* draft risks/opportunities
MaxConcerns == 4         \* extracted concerns
MaxOpportunities == 3    \* extracted opportunities

SeqsUpTo(S, n) == UNION {[1..m -> S] : m \in 0..n}

----------------------------------------------------------------------------
(* Texts.  LongA, LongA2 and LongAUp agree on their case-folded first 50   *)
(* characters; LongB differs from them in the 50th character only.         *)

Stem == Rep("p", KeyLen - 1)
LongA == Stem \o <<"a", "x">>
LongA2 == Stem \o <<"a", "y">>
LongAUp == Rep("P", KeyLen - 1) \o <<"A", "x">>
LongB == Stem \o <<"b", "x">>
Short(i) == <<"t">> \o Rep("k", i)
ShortUp(i) == <<"T">> \o Rep("K", i)
Mid40 == Rep("q", 40)
Pricing ==
    <<"C","l","i","e","n","t"," ","i","s"," ","u","n","h","a","p","p","y"," ",
      "w","i","t","h"," ","p","r","i","c","i","n","g">>

(* What GeneratedBrief.open_action_items can hold: dictionaries, some      *)
(* without the keys the merge reads with a default.                        *)
DraftItem(i) ==
    CASE i = 1 -> [description |-> LongA, assignee |-> "ann@x.io",
                   due_date |-> "2024-05-01", status |-> "open",
                   source |-> "email"]
      [] i = 3 -> [assignee |-> "bob@x.io"]
      [] OTHER -> [description |-> Short(i), assignee |-> None,
                   due_date |-> None, status |-> "in_progress",
                   source |-> "meeting"]

DraftFill(k) == [i \in 1..k |-> DraftItem(i)]

ExtraDraftItems ==
    {[description |-> t, assignee |-> "cy@x.io", status |-> "open"] :
        t \in {LongA2, ShortUp(2), LongB}}

DraftActionLists ==
    UNION {{DraftFill(k) \o w, w \o DraftFill(k)} :
              k \in 0..MaxDraftItems,
              w \in SeqsUpTo(ExtraDraftItems, MaxExtraDraftItems)}

(* ExtractedInsight records, insight_extractor.py:14-24 *)
Insight(type, content, source, people, priority, status) ==
    [type |-> type, content |-> content, source |-> source,
     source_date |-> None, participants |-> people,
     priority |-> priority, status |-> status]

ActionInsights ==
    {Insight("action_item", LongAUp, "email", <<"ann@x.io", "bob@x.io">>,
             "high", "open"),
     Insight("action_item", LongB, "meeting", <<>>, "medium", "in_progress"),
     Insight("action_item", <<"n", "e", "w">>, "email", <<"bob@x.io">>, "low",
             "resolved")}

InsightActionLists == SeqsUpTo(ActionInsights, MaxInsightItems)

Concern(i) ==
    CASE i = 1 -> Insight("concern", Pricing, "email", <<>>, "high", "open")
      [] i = 2 -> Insight("concern", Mid40, "meeting", <<"ann@x.io">>,
                          "low", "open")
      [] i = 3 -> Insight("concern", LongA, "email", <<>>, "medium",
                          "in_progress")
      [] OTHER -> Insight("concern", Short(i), "meeting", <<>>, "low", "open")

Opportunity(i) ==
    CASE i = 1 -> Insight("opportunity", <<"u","p","s","e","l","l">>, "email",
                          <<>>, "high", "open")
      [] i = 2 -> Insight("opportunity", LongB, "meeting", <<>>, "low", "open")
      [] OTHER -> Insight("opportunity", Short(i), "email", <<>>, "medium",
                          "open")

ConcernLists == {[i \in 1..m |-> Concern(i)] : m \in 0..MaxConcerns}
OpportunityLists == {[i \in 1..m |-> Opportunity(i)] : m \in 0..MaxOpportunities}

(* What GeneratedBrief.talking_points can hold *)
DraftPoint(i) ==
    CASE i = 2 -> [topic |-> Short(i), context |-> <<"c">>]
      [] OTHER -> [topic |-> Short(i), context |-> <<"c">>,
                   priority |-> IF i % 2 = 1 THEN "low" ELSE "high",
                   source |-> "email"]

ExtraPoints ==
    {[topic |-> t, context |-> <<"e">>, priority |-> "low", source |-> "crm"] :
        t \in {ShortUp(1), AddressConcern \o Pricing}}

DraftPointLists ==
    {[i \in 1..k |-> DraftPoint(i)] \o w :
        k \in 0..MaxDraftPoints, w \in SeqsUpTo(ExtraPoints, MaxExtraPoints)}

(* What GeneratedBrief.risks_opportunities can hold *)
DraftRisk(i) ==
    CASE i = 2 -> [title |-> Short(i), description |-> <<"d">>]
      [] OTHER -> [type |-> IF i % 2 = 1 THEN "risk" ELSE "opportunity",
                   title |-> Short(i), description |-> <<"d">>,
                   severity |-> "high", recommended_action |-> "call"]

DraftRiskLists == {[i \in 1..k |-> DraftRisk(i)] : k \in 0..MaxDraftRisks}

(* The pairs (GeneratedBrief, InsightExtractionResult) a run starts the    *)
(* merge with: each family varies the inputs of one merge procedure and    *)
(* holds the rest at a small fixed value.                                  *)
\* the fields of a GeneratedBrief that the merge does not read,
\* brief_generator.py:19-26, 36-41
DraftRest ==
    [meeting_objective |-> "renewal",
     executive_summary |-> "summary",
     participant_profiles |-> <<[email |-> "ann@x.io", name |-> "Ann"],
                               [email |-> "bob@x.io"]>>,
     relationship_timeline |-> <<[date |-> "2024-01", event |-> "kickoff"],
                                 [date |-> "2024-03", event |-> "pilot"]>>,
     email_summary |-> None,
     previous_meetings_summary |-> "met twice"]

Inputs(items, ins_items, points, risks, concerns, opps) ==
    [generated |-> DraftRest @@ [open_action_items |-> items,
                                 talking_points |-> points,
                                 risks_opportunities |-> risks],
     insights  |-> [action_items |-> ins_items,
                    concerns |-> concerns,
                    opportunities |-> opps]]

ActionCases ==
    {Inputs(items, ins_items, <<DraftPoint(1)>>, <<DraftRisk(1)>>,
            <<Concern(1)>>, <<>>) :
        items \in DraftActionLists, ins_items \in InsightActionLists}

PointCases ==
    {Inputs(DraftFill(2), <<>>, points, <<DraftRisk(1)>>, concerns, opps) :
        points \in DraftPointLists, concerns \in ConcernLists,
        opps \in OpportunityLists}

RiskCases ==
    {Inputs(DraftFill(2), <<>>, <<DraftPoint(1)>>, risks, concerns, opps) :
        risks \in DraftRiskLists, concerns \in ConcernLists,
        opps \in OpportunityLists}

FullCases ==
    {Inputs(DraftFill(MaxDraftItems), ins_items,
            [i \in 1..MaxDraftPoints |-> DraftPoint(i)],
            [i \in 1..MaxDraftRisks |-> DraftRisk(i)], concerns, opps) :
        ins_items \in InsightActionLists, concerns \in ConcernLists,
        opps \in OpportunityLists}

MergeInputs == ActionCases \cup PointCases \cup RiskCases \cup FullCases

----------------------------------------------------------------------------
(* generate_brief from Step 4 on, orchestrator.py:72-111 *)

GatherIdle ==
    /\ gpc = "idle"
    /\ toggles = [email |-> FALSE, calendar |-> FALSE, crm |-> FALSE]
    /\ mcp = [email |-> "absent", calendar |-> "absent", crm |-> "absent"]
    /\ participants = <<>>
    /\ cursor = 0
    /\ contact = NoRecord
    /\ email_data = <<>>
    /\ calendar_data = <<>>
    /\ crm_data = <<>>
    /\ sources_accessed = <<>>
    /\ attempted = {}
    /\ errored = {}
    /\ raised_in = None
    /\ context = NoRecord

\* no generate_brief call beyond the merge, no extraction call and no
\* calendar call is under way
PipeIdle ==
    /\ caller = "direct"
    /\ data_sources = <<>>
    /\ extract_call = NoRecord
    /\ generate_call = NoRecord
    /\ completed = {}
    /\ db = <<>>

ExtractIdle ==
    /\ ecall = NoRecord
    /\ interactions = NoRecord

CalendarIdle ==
    /\ cal_call = NoRecord
    /\ cal_result = NoRecord

\* _format_crm_context is not called on its own
CrmFormatIdle ==
    /\ crm_arg = NoRecord
    /\ crm_text = NoRecord

ApiIdle ==
    /\ issued = <<>>
    /\ response = NoRecord

RunsIdle == runs = <<>>

LaterIdle == CrmFormatIdle /\ ApiIdle /\ RunsIdle

NoBrief == [open_action_items |-> <<>>, talking_points |-> <<>>,
            risks_opportunities |-> <<>>]

\* a chain output that is not a dict: generate and extract return it as it
\* is, unvalidated (brief_generator.py:107-109, insight_extractor.py:166-168)
Unvalidated == [unvalidated |-> TRUE]

NoInsights == [action_items |-> <<>>, concerns |-> <<>>, opportunities |-> <<>>]

\* generate_brief is not at its merge
MergeIdle ==
    /\ pc = "idle"
    /\ generated = NoBrief
    /\ insights = NoInsights
    /\ action_items = <<>>
    /\ talking_points = <<>>
    /\ risks_opportunities = <<>>
    /\ brief = NoBrief
    /\ prov = NoBrief

\* steps 1-3 have returned: `generated` and `insights` are bound
MergeInit ==
    /\ pc = "merge_action_items"
    /\ \E in \in MergeInputs :
          /\ generated = in.generated
          /\ insights = in.insights
    /\ action_items = <<>>
    /\ talking_points = <<>>
    /\ risks_opportunities = <<>>
    /\ brief = NoBrief
    /\ prov = NoBrief
    /\ GatherIdle
    /\ PipeIdle
    /\ LaterIdle
    /\ ExtractIdle
    /\ CalendarIdle

\* orchestrator.py:73-76
MergeActionItems ==
    /\ pc = "merge_action_items"
    /\ generated # Unvalidated
    /\ insights # Unvalidated
    /\ action_items' = _merge_action_items(generated.open_action_items,
                                           insights.action_items)
    /\ pc' = "enhance_talking_points"
    /\ UNCHANGED <<generated, insights, talking_points, risks_opportunities,
                   brief, prov, gatherVars, otherVars>>

\* orchestrator.py:78-81
EnhanceTalkingPoints ==
    /\ pc = "enhance_talking_points"
    /\ talking_points' = _enhance_talking_points(generated.talking_points,
                                                 insights)
    /\ pc' = "merge_risks_opportunities"
    /\ UNCHANGED <<generated, insights, action_items, risks_opportunities,
                   brief, prov, gatherVars, otherVars>>

\* orchestrator.py:83-87
MergeRisksOpportunities ==
    /\ pc = "merge_risks_opportunities"
    /\ risks_opportunities' =
          _merge_risks_opportunities(generated.risks_opportunities,
                                     insights.concerns,
                                     insights.opportunities)
    /\ pc' = "build_brief"
    /\ UNCHANGED <<generated, insights, action_items, talking_points,
                   brief, prov, gatherVars, otherVars>>

\* ParticipantProfile(**p): models/brief.py:8-18
ParticipantProfileOf(p) ==
    [email |-> p.email,
     name |-> Get(p, "name", None),
     title |-> Get(p, "title", None),
     company |-> Get(p, "company", None),
     linkedin_url |-> Get(p, "linkedin_url", None),
     recent_interactions |-> Get(p, "recent_interactions", <<>>),
     key_topics |-> Get(p, "key_topics", <<>>),
     sentiment |-> Get(p, "sentiment", None)]

\* one line of the CRM context: the pieces the f-string puts together,
\* orchestrator.py:228-237
ContactLine(c) ==
    <<"- ", Get(c, "name", "Unknown"), ": ", Get(c, "title", "N/A"), " at ",
      Get(c, "company", "N/A")>>
DealLine(d) ==
    <<"- Deal: ", Get(d, "name", "Unknown"), " - Stage: ",
      Get(d, "stage", "N/A"), ", Value: ", Get(d, "value", "N/A")>>

\* mutant: the line cap is applied to contacts and deals together
format_crm_context_cap_all(crm) ==
    IF Get(crm, "contacts", <<>>) = <<>>
    THEN NoRecord
    ELSE LET contacts == Get(crm, "contacts", <<>>)
             deals == Get(crm, "deals", <<>>)
         IN  [lines |-> Slice([i \in DOMAIN contacts |-> ContactLine(contacts[i])]
                                \o [i \in DOMAIN deals |-> DealLine(deals[i])],
                              2 * CrmLineCap)]

\* "\n".join(parts), kept as the sequence of its lines, or None (NoRecord):
\* orchestrator.py:221-239.  An empty dict has no key, so the first test
\* is the second.
_format_crm_context(crm) ==
    IF Get(crm, "contacts", <<>>) = <<>>
    THEN NoRecord
    ELSE LET contacts == Slice(Get(crm, "contacts", <<>>), CrmLineCap)
             deals == Slice(Get(crm, "deals", <<>>), CrmLineCap)
         IN  [lines |-> [i \in DOMAIN contacts |-> ContactLine(contacts[i])]
                          \o [i \in DOMAIN deals |-> DealLine(deals[i])]]

\* Brief(...): orchestrator.py:92-109.  The uuid4 and the utcnow of the
\* run are the values "brief-1" and "t-generated".
BriefOf(draft, items, points, risks, crm) ==
    [id |-> "brief-1",
     meeting_id |-> "meeting-1",
     title |-> <<"Brief: ", "kickoff">>,
     meeting_objective |-> draft.meeting_objective,
     executive_summary |-> draft.executive_summary,
     participant_profiles |->
         [i \in DOMAIN draft.participant_profiles |->
             ParticipantProfileOf(draft.participant_profiles[i])],
     relationship_timeline |-> draft.relationship_timeline,
     open_action_items |-> items,
     talking_points |-> points,
     risks_opportunities |-> risks,
     email_context |-> draft.email_summary,
     crm_context |-> _format_crm_context(crm),
     previous_meetings_summary |-> draft.previous_meetings_summary,
     generated_at |-> "t-generated"]

\* orchestrator.py:89-111
BuildBrief ==
    /\ pc = "build_brief"
    /\ brief' = BriefOf(generated, Items(action_items), Items(talking_points),
                        Items(risks_opportunities),
                        Get(context, "crm_data", <<>>))
    /\ prov' = [open_action_items |-> Tags(action_items),
                talking_points |-> Tags(talking_points),
                risks_opportunities |-> Tags(risks_opportunities)]
    /\ pc' = "returned"
    /\ UNCHANGED <<generated, insights, action_items, talking_points,
                   risks_opportunities, gatherVars, otherVars>>

MergeNext ==
    \/ MergeActionItems
    \/ EnhanceTalkingPoints
    \/ MergeRisksOpportunities
    \/ BuildBrief

Spec == MergeInit /\ [][MergeNext]_vars

----------------------------------------------------------------------------
(* ContextGathererAgent, context_gatherer.py:71-205.  Every await is a     *)
(* step; what a client call returns, or that it raises, is chosen there.   *)

MaxParticipants == 2   \* participants of the meeting
MaxEvents == 2         \* events one list_events call returns
MaxOrganized == 21     \* records in one list of the organising chain's output


Ann == <<"a", "n", "n", "@", "x">>
Bob == <<"B", "o", "b", "@", "x">>
Participant(i) ==
    CASE i = 1 -> Ann
      [] i = 2 -> Bob
      [] OTHER -> <<"p">> \o Rep("z", i)

ParticipantLists == {[i \in 1..n |-> Participant(i)] : n \in 0..MaxParticipants}

McpStates == {"absent", "disabled", "enabled"}
Sources == {"email", "calendar", "crm"}

\* what search_emails can return for one participant
SearchResults == {<<>>, <<[subject |-> "thread"]>>}

\* what list_events can return: events whose attendees match a participant in
\* another case, match none, or hold an attendee whose email is None
CalendarEvents ==
    {[summary |-> "sync", attendees |-> <<[email |-> <<"A", "N", "N", "@", "x">>]>>],
     [summary |-> "other", attendees |-> <<[email |-> <<"c", "y", "@", "x">>]>>],
     [summary |-> "broken", attendees |-> <<[email |-> NoneText]>>]}

EventLists == SeqsUpTo(CalendarEvents, MaxEvents)

\* what get_contact_by_email, get_contact_deals and get_account can return
ContactResults ==
    {NoRecord, [id |-> "c1", account_id |-> "acc1"], [id |-> "c2"]}
DealResults == {<<>>, <<[name |-> "deal"]>>}
AccountResults == {NoRecord, [id |-> "acc1"]}

\* what the organising chain of gather can return (a dict parsed from the
\* model's JSON); keys it leaves out take GatheredContext's defaults.  A
\* data_quality_score is written in tenths: 7 is 0.7, 15 is 1.5.
OrganizeResults ==
    {[email_threads |-> <<>>],
     [email_threads |-> <<[subject |-> "thread"]>>,
      calendar_events |-> <<>>,
      crm_data |-> [contacts |-> <<>>],
      data_quality_score |-> 7,
      sources_accessed |-> <<"email", "calendar", "crm">>],
     [email_threads |-> [i \in 1..MaxOrganized |-> [subject |-> "thread"]],
      calendar_events |->
          [i \in 1..MaxOrganized |-> [summary |-> "sync", description |-> <<"n">>]],
      data_quality_score |-> 15]}

\* "<source>" in self.mcp and self.mcp["<source>"].get("enabled")
Integrated(source) == mcp[source] = "enabled"

\* crm_data = {"contacts": [], "deals": [], "accounts": []}
EmptyCrm == [contacts |-> <<>>, deals |-> <<>>, accounts |-> <<>>]

\* gather is called: context_gatherer.py:162-165; crm_data is the {} of
\* line 177 until gather_crm_context is called
GatherInit ==
    /\ gpc = "email"
    /\ toggles \in [Sources -> BOOLEAN]
    /\ mcp \in [Sources -> McpStates]
    /\ participants \in ParticipantLists
    /\ cursor = 0
    /\ contact = NoRecord
    /\ email_data = <<>>
    /\ calendar_data = <<>>
    /\ crm_data = <<>>
    /\ sources_accessed = <<>>
    /\ attempted = {}
    /\ errored = {}
    /\ raised_in = None
    /\ context = NoRecord
    /\ MergeIdle
    /\ PipeIdle
    /\ LaterIdle
    /\ ExtractIdle
    /\ CalendarIdle

\* gather_email_context returned to gather: context_gatherer.py:92, 168-171
EmailReturns ==
    /\ sources_accessed' = IF email_data # <<>>
                           THEN Append(sources_accessed, "email")
                           ELSE sources_accessed
    /\ gpc' = "calendar"
    /\ cursor' = 0

\* include_email is false, or the integration is absent or not enabled:
\* context_gatherer.py:166, 79
SkipEmail ==
    /\ gpc = "email"
    /\ ~(toggles["email"] /\ Integrated("email"))
    /\ EmailReturns
    /\ UNCHANGED <<toggles, mcp, participants, contact, email_data,
                   calendar_data, crm_data, attempted, errored, raised_in,
                   context, mergeVars, otherVars>>

\* mutant of EnterEmail: the fetch does not look at include_email
EnterEmail_ignores_toggle ==
    /\ gpc = "email"
    /\ Integrated("email")
    /\ attempted' = attempted \cup {"email"}
    /\ cursor' = 1
    /\ gpc' = "email_loop"
    /\ UNCHANGED <<toggles, mcp, participants, contact, email_data,
                   calendar_data, crm_data, sources_accessed, errored,
                   raised_in, context, mergeVars, otherVars>>

\* the try block is entered: context_gatherer.py:81-83
EnterEmail ==
    /\ gpc = "email"
    /\ toggles["email"] /\ Integrated("email")
    /\ attempted' = attempted \cup {"email"}
    /\ cursor' = 1
    /\ gpc' = "email_loop"
    /\ UNCHANGED <<toggles, mcp, participants, contact, email_data,
                   calendar_data, crm_data, sources_accessed, errored,
                   raised_in, context, mergeVars, otherVars>>

\* search_emails returned for the participant at the cursor:
\* context_gatherer.py:84-88
SearchEmailsReturns ==
    /\ gpc = "email_loop"
    /\ cursor <= Len(participants)
    /\ \E threads \in SearchResults : email_data' = email_data \o threads
    /\ cursor' = cursor + 1
    /\ UNCHANGED <<gpc, toggles, mcp, participants, contact, calendar_data,
                   crm_data, sources_accessed, attempted, errored, raised_in,
                   context, mergeVars, otherVars>>

\* mutant: no except clause, the error leaves gather_email_context
SearchEmailsRaises_propagates ==
    /\ gpc = "email_loop"
    /\ cursor <= Len(participants)
    /\ errored' = errored \cup {"email"}
    /\ gpc' = "raised"
    /\ raised_in' = "email"
    /\ UNCHANGED <<toggles, mcp, participants, cursor, contact, email_data,
                   calendar_data, crm_data, sources_accessed, attempted,
                   context, mergeVars, otherVars>>

\* search_emails raised: the except clause prints and the threads extended
\* so far are returned: context_gatherer.py:89-92
SearchEmailsRaises ==
    /\ gpc = "email_loop"
    /\ cursor <= Len(participants)
    /\ errored' = errored \cup {"email"}
    /\ EmailReturns
    /\ UNCHANGED <<toggles, mcp, participants, contact, email_data,
                   calendar_data, crm_data, attempted, raised_in, context,
                   mergeVars, otherVars>>

\* the loop over the participants ended: context_gatherer.py:83, 92
EmailLoopEnds ==
    /\ gpc = "email_loop"
    /\ cursor > Len(participants)
    /\ EmailReturns
    /\ UNCHANGED <<toggles, mcp, participants, contact, email_data,
                   calendar_data, crm_data, attempted, errored, raised_in,
                   context, mergeVars, otherVars>>

\* [a.get("email", "").lower() for a in event.get("attendees", [])] raises
\* AttributeError when an attendee's email is None
AttendeesRaise(event) ==
    \E k \in DOMAIN Get(event, "attendees", <<>>) :
        Get(event.attendees[k], "email", <<>>) = NoneText

\* mutant: the attendee e-mails are compared as they are written
EventMatches_case_sensitive(event, people) ==
    LET attendees == Get(event, "attendees", <<>>)
        event_attendees ==
            {Get(attendees[k], "email", <<>>) : k \in DOMAIN attendees}
    IN  \E k \in DOMAIN people : people[k] \in event_attendees

\* any(p.lower() in event_attendees for p in participants)
EventMatches(event, people) ==
    LET attendees == Get(event, "attendees", <<>>)
        event_attendees ==
            {Lower(Get(attendees[k], "email", <<>>)) : k \in DOMAIN attendees}
    IN  \E k \in DOMAIN people : Lower(people[k]) \in event_attendees

\* for event in calendar_events: ...  (context_gatherer.py:113-116); the
\* loop stops at the first event whose attendees raise
RECURSIVE FilterEvents(_, _, _, _)
FilterEvents(fetched, people, i, events) ==
    IF i > Len(fetched)
    THEN [events |-> events, raised |-> FALSE]
    ELSE IF AttendeesRaise(fetched[i])
    THEN [events |-> events, raised |-> TRUE]
    ELSE FilterEvents(fetched, people, i + 1,
             IF EventMatches(fetched[i], people)
             THEN Append(events, fetched[i]) ELSE events)

\* gather_calendar_context returned to gather: context_gatherer.py:120, 173-175
CalendarReturns(events) ==
    /\ calendar_data' = events
    /\ sources_accessed' = IF events # <<>>
                           THEN Append(sources_accessed, "calendar")
                           ELSE sources_accessed
    /\ gpc' = "crm"

\* include_calendar is false, or the integration is absent or not enabled
SkipCalendar ==
    /\ gpc = "calendar"
    /\ ~(toggles["calendar"] /\ Integrated("calendar"))
    /\ CalendarReturns(<<>>)
    /\ UNCHANGED <<toggles, mcp, participants, cursor, contact, email_data,
                   crm_data, attempted, errored, raised_in, context, mergeVars, otherVars>>

\* the try block is entered and list_events awaited: context_gatherer.py:103-110
EnterCalendar ==
    /\ gpc = "calendar"
    /\ toggles["calendar"] /\ Integrated("calendar")
    /\ attempted' = attempted \cup {"calendar"}
    /\ gpc' = "calendar_fetch"
    /\ UNCHANGED <<toggles, mcp, participants, cursor, contact, email_data,
                   calendar_data, crm_data, sources_accessed, errored,
                   raised_in, context, mergeVars, otherVars>>

\* list_events returned and the events were filtered: context_gatherer.py:107-120
ListEventsReturns ==
    /\ gpc = "calendar_fetch"
    /\ \E fetched \in EventLists :
          LET r == FilterEvents(fetched, participants, 1, <<>>)
          IN  /\ CalendarReturns(r.events)
              /\ errored' = IF r.raised THEN errored \cup {"calendar"} ELSE errored
    /\ UNCHANGED <<toggles, mcp, participants, cursor, contact, email_data,
                   crm_data, attempted, raised_in, context, mergeVars, otherVars>>

\* list_events raised: context_gatherer.py:117-120
ListEventsRaises ==
    /\ gpc = "calendar_fetch"
    /\ errored' = errored \cup {"calendar"}
    /\ CalendarReturns(<<>>)
    /\ UNCHANGED <<toggles, mcp, participants, cursor, contact, email_data,
                   crm_data, attempted, raised_in, context, mergeVars, otherVars>>

\* gather_crm_context returned to gather: context_gatherer.py:148, 179-181
CrmReturns ==
    /\ sources_accessed' = IF Get(crm_data', "contacts", <<>>) # <<>>
                           THEN Append(sources_accessed, "crm")
                           ELSE sources_accessed
    /\ gpc' = "organize"
    /\ cursor' = 0
    /\ contact' = NoRecord

\* include_crm is false (crm_data stays {}), or the integration is absent or
\* not enabled (the three empty lists are returned)
SkipCrm ==
    /\ gpc = "crm"
    /\ ~(toggles["crm"] /\ Integrated("crm"))
    /\ crm_data' = IF toggles["crm"] THEN EmptyCrm ELSE crm_data
    /\ CrmReturns
    /\ UNCHANGED <<toggles, mcp, participants, email_data, calendar_data,
                   attempted, errored, raised_in, context, mergeVars, otherVars>>

\* crm_data is created and the try block entered: context_gatherer.py:127-131
EnterCrm ==
    /\ gpc = "crm"
    /\ toggles["crm"] /\ Integrated("crm")
    /\ attempted' = attempted \cup {"crm"}
    /\ crm_data' = EmptyCrm
    /\ cursor' = 1
    /\ gpc' = "crm_contact"
    /\ UNCHANGED <<toggles, mcp, participants, contact, email_data,
                   calendar_data, sources_accessed, errored, raised_in,
                   context, mergeVars, otherVars>>

\* get_contact_by_email returned: context_gatherer.py:132-134
GetContactReturns ==
    /\ gpc = "crm_contact"
    /\ cursor <= Len(participants)
    /\ \E found \in ContactResults :
          IF found = NoRecord
          THEN /\ cursor' = cursor + 1
               /\ UNCHANGED <<gpc, contact, crm_data>>
          ELSE /\ contact' = found
               /\ crm_data' = [crm_data EXCEPT !.contacts = Append(@, found)]
               /\ gpc' = "crm_deals"
               /\ UNCHANGED cursor
    /\ UNCHANGED <<toggles, mcp, participants, email_data, calendar_data,
                   sources_accessed, attempted, errored, raised_in, context,
                   mergeVars, otherVars>>

\* get_contact_deals returned: context_gatherer.py:137-141
GetDealsReturns ==
    /\ gpc = "crm_deals"
    /\ \E deals \in DealResults :
          crm_data' = [crm_data EXCEPT !.deals = @ \o deals]
    /\ IF Get(contact, "account_id", None) # None
       THEN /\ gpc' = "crm_account"
            /\ UNCHANGED <<cursor, contact>>
       ELSE /\ gpc' = "crm_contact"
            /\ cursor' = cursor + 1
            /\ contact' = NoRecord
    /\ UNCHANGED <<toggles, mcp, participants, email_data, calendar_data,
                   sources_accessed, attempted, errored, raised_in, context,
                   mergeVars, otherVars>>

\* get_account returned: context_gatherer.py:142-144
GetAccountReturns ==
    /\ gpc = "crm_account"
    /\ \E account \in AccountResults :
          crm_data' = IF account # NoRecord
                      THEN [crm_data EXCEPT !.accounts = Append(@, account)]
                      ELSE crm_data
    /\ gpc' = "crm_contact"
    /\ cursor' = cursor + 1
    /\ contact' = NoRecord
    /\ UNCHANGED <<toggles, mcp, participants, email_data, calendar_data,
                   sources_accessed, attempted, errored, raised_in, context,
                   mergeVars, otherVars>>

\* a CRM client call raised: the except clause prints and the crm_data filled
\* so far is returned: context_gatherer.py:145-148
CrmCallRaises ==
    /\ \/ gpc = "crm_contact" /\ cursor <= Len(participants)
       \/ gpc \in {"crm_deals", "crm_account"}
    /\ errored' = errored \cup {"crm"}
    /\ UNCHANGED crm_data
    /\ CrmReturns
    /\ UNCHANGED <<toggles, mcp, participants, email_data, calendar_data,
                   attempted, raised_in, context, mergeVars, otherVars>>

\* the loop over the participants ended: context_gatherer.py:131, 148
CrmLoopEnds ==
    /\ gpc = "crm_contact"
    /\ cursor > Len(participants)
    /\ UNCHANGED crm_data
    /\ CrmReturns
    /\ UNCHANGED <<toggles, mcp, participants, email_data, calendar_data,
                   attempted, errored, raised_in, context, mergeVars, otherVars>>

\* mutant: the chain's own sources_accessed is kept when it gives one
GatheredContextOf_trusts_result(result) ==
    [email_threads |-> Get(result, "email_threads", <<>>),
     calendar_events |-> Get(result, "calendar_events", <<>>),
     crm_data |-> Get(result, "crm_data", <<>>),
     past_interactions |-> Get(result, "past_interactions", <<>>),
     participant_profiles |-> Get(result, "participant_profiles", <<>>),
     data_quality_score |-> Get(result, "data_quality_score", 0),
     sources_accessed |-> Get(result, "sources_accessed", sources_accessed)]

\* GatheredContext(**result) with sources_accessed overwritten:
\* context_gatherer.py:16-25, 200-202
GatheredContextOf(result) ==
    [email_threads |-> Get(result, "email_threads", <<>>),
     calendar_events |-> Get(result, "calendar_events", <<>>),
     crm_data |-> Get(result, "crm_data", <<>>),
     past_interactions |-> Get(result, "past_interactions", <<>>),
     participant_profiles |-> Get(result, "participant_profiles", <<>>),
     data_quality_score |-> Get(result, "data_quality_score", 0),
     sources_accessed |-> sources_accessed]

\* the organising chain returned: context_gatherer.py:184-205
OrganizeReturns ==
    /\ gpc = "organize"
    /\ \E result \in OrganizeResults : context' = GatheredContextOf(result)
    /\ gpc' = "returned"
    /\ UNCHANGED <<toggles, mcp, participants, cursor, contact, email_data,
                   calendar_data, crm_data, sources_accessed, attempted,
                   errored, raised_in, mergeVars, otherVars>>

\* the organising chain raised (the call, or the parse of its output):
\* nothing in gather catches it
OrganizeRaises ==
    /\ gpc = "organize"
    /\ gpc' = "raised"
    /\ raised_in' = "organize"
    /\ UNCHANGED <<toggles, mcp, participants, cursor, contact, email_data,
                   calendar_data, crm_data, sources_accessed, attempted,
                   errored, context, mergeVars, otherVars>>

GatherNext ==
    \/ SkipEmail
    \/ EnterEmail
    \/ SearchEmailsReturns
    \/ SearchEmailsRaises
    \/ EmailLoopEnds
    \/ SkipCalendar
    \/ EnterCalendar
    \/ ListEventsReturns
    \/ ListEventsRaises
    \/ SkipCrm
    \/ EnterCrm
    \/ GetContactReturns
    \/ GetDealsReturns
    \/ GetAccountReturns
    \/ CrmCallRaises
    \/ CrmLoopEnds
    \/ OrganizeReturns
    \/ OrganizeRaises

SpecGather == GatherInit /\ [][GatherNext]_vars

----------------------------------------------------------------------------
(* generate_brief as a whole, orchestrator.py:36-111, awaited by a direct  *)
(* caller or by the endpoint generate_meeting_brief, api/meetings.py:      *)
(* 165-198, which stores the Brief it gets back.                           *)

MaxPipelineParticipants == 1   \* participants of the meeting of a full run

PipelineParticipantLists ==
    {p \in ParticipantLists : Len(p) <= MaxPipelineParticipants}

\* the endpoint builds BriefOrchestrator() without integrations
\* (api/meetings.py:166); a direct caller may pass them
NoIntegrations == [s \in Sources |-> "absent"]
AllIntegrations == [s \in Sources |-> "enabled"]

\* what extract can return: InsightExtractionResult(**result), or the
\* parsed output itself when it is not a dict
ExtractResults ==
    {NoInsights,
     [action_items |-> <<Insight("action_item", LongB, "meeting", <<>>,
                                 "medium", "in_progress")>>,
      concerns |-> <<Concern(1)>>,
      opportunities |-> <<Opportunity(1)>>],
     Unvalidated}

\* what generate can return: GeneratedBrief(**result), or the parsed output
\* itself when it is not a dict
EmptyDraft ==
    [meeting_objective |-> "", executive_summary |-> "",
     participant_profiles |-> <<>>, relationship_timeline |-> <<>>,
     open_action_items |-> <<>>, talking_points |-> <<>>,
     risks_opportunities |-> <<>>, email_summary |-> None,
     previous_meetings_summary |-> None]

GenerateResults ==
    {EmptyDraft,
     DraftRest @@ [open_action_items |-> DraftFill(1),
                   talking_points |-> <<DraftPoint(1)>>,
                   risks_opportunities |-> <<DraftRisk(1)>>],
     Unvalidated}

\* generate_brief is awaited and has called gather: orchestrator.py:36-49
PipelineInit ==
    /\ caller \in {"endpoint", "direct"}
    /\ pc = "gather"
    /\ gpc = "email"
    /\ toggles \in [Sources -> BOOLEAN]
    /\ mcp \in IF caller = "endpoint"
               THEN {NoIntegrations}
               ELSE {NoIntegrations, AllIntegrations}
    /\ participants \in PipelineParticipantLists
    /\ cursor = 0
    /\ contact = NoRecord
    /\ email_data = <<>>
    /\ calendar_data = <<>>
    /\ crm_data = <<>>
    /\ sources_accessed = <<>>
    /\ attempted = {}
    /\ errored = {}
    /\ raised_in = None
    /\ context = NoRecord
    /\ generated = NoBrief
    /\ insights = NoInsights
    /\ action_items = <<>>
    /\ talking_points = <<>>
    /\ risks_opportunities = <<>>
    /\ brief = NoBrief
    /\ prov = NoBrief
    /\ data_sources = <<>>
    /\ extract_call = NoRecord
    /\ generate_call = NoRecord
    /\ completed = {}
    /\ db = <<>>
    /\ ExtractIdle
    /\ CalendarIdle
    /\ LaterIdle

\* the meeting_notes argument built from context.calendar_events:
\* orchestrator.py:55-60
MeetingNotesOf(events) ==
    [i \in DOMAIN events |->
        [date |-> Get(Get(events[i], "start", <<>>), "dateTime", None),
         title |-> Get(events[i], "summary", ""),
         notes |-> Get(events[i], "description", <<>>),
         attendees |->
             LET attendees == Get(events[i], "attendees", <<>>)
             IN  [k \in DOMAIN attendees |-> Get(attendees[k], "email", None)]]]

\* gather raised: the exception leaves generate_brief, orchestrator.py:40
GatherRaises ==
    /\ pc = "gather"
    /\ gpc = "raised"
    /\ pc' = "raised"
    /\ UNCHANGED <<generated, insights, action_items, talking_points,
                   risks_opportunities, brief, prov, gatherVars, pipeVars,
                   extractVars, calendarVars, laterVars>>

\* gather returned; its sources are noted and extract is called with the
\* context's threads and events: orchestrator.py:40-62
ExtractStarts ==
    /\ pc = "gather"
    /\ gpc = "returned"
    /\ data_sources' = data_sources \o context.sources_accessed
    /\ extract_call' =
          [email_threads |-> context.email_threads,
           meeting_notes |-> MeetingNotesOf(context.calendar_events)]
    /\ pc' = "extract"
    /\ UNCHANGED <<generated, insights, action_items, talking_points,
                   risks_opportunities, brief, prov, gatherVars, caller,
                   generate_call, completed, db, extractVars, calendarVars, laterVars>>

\* mutant: a failed extraction is replaced by an empty result and the run
\* goes on
ExtractRaises_substitutes_empty ==
    /\ pc = "extract"
    /\ raised_in' = "extract"
    /\ insights' = NoInsights
    /\ generate_call' = [context |-> context]
    /\ pc' = "generate"
    /\ UNCHANGED <<generated, action_items, talking_points,
                   risks_opportunities, brief, prov, gpc, toggles, mcp,
                   participants, cursor, contact, email_data, calendar_data,
                   crm_data, sources_accessed, attempted, errored, context,
                   caller, data_sources, extract_call, completed, db,
                   extractVars, calendarVars, laterVars>>

\* extract raised (the chain, its parser, or the validation of
\* InsightExtractionResult(**result)): nothing in generate_brief catches it,
\* orchestrator.py:53
ExtractRaises ==
    /\ pc = "extract"
    /\ raised_in' = "extract"
    /\ pc' = "raised"
    /\ UNCHANGED <<generated, insights, action_items, talking_points,
                   risks_opportunities, brief, prov, gpc, toggles, mcp,
                   participants, cursor, contact, email_data, calendar_data,
                   crm_data, sources_accessed, attempted, errored, context,
                   pipeVars, extractVars, calendarVars, laterVars>>

\* extract returned and generate is called with the context:
\* orchestrator.py:53-70
ExtractReturns ==
    /\ pc = "extract"
    /\ \E result \in ExtractResults : insights' = result
    /\ completed' = completed \cup {"extract"}
    /\ generate_call' = [context |-> context]
    /\ pc' = "generate"
    /\ UNCHANGED <<generated, action_items, talking_points,
                   risks_opportunities, brief, prov, gatherVars, caller,
                   data_sources, extract_call, db, extractVars, calendarVars, laterVars>>

\* mutant: a failed synthesis is replaced by an empty draft and the merge
\* runs on it
GenerateRaises_uses_empty_draft ==
    /\ pc = "generate"
    /\ raised_in' = "generate"
    /\ generated' = EmptyDraft
    /\ pc' = "merge_action_items"
    /\ UNCHANGED <<insights, action_items, talking_points,
                   risks_opportunities, brief, prov, gpc, toggles, mcp,
                   participants, cursor, contact, email_data, calendar_data,
                   crm_data, sources_accessed, attempted, errored, context,
                   pipeVars, extractVars, calendarVars, laterVars>>

\* generate raised (the chain, its parser, or the validation of
\* GeneratedBrief(**result)): nothing in generate_brief catches it,
\* orchestrator.py:65
GenerateRaises ==
    /\ pc = "generate"
    /\ raised_in' = "generate"
    /\ pc' = "raised"
    /\ UNCHANGED <<generated, insights, action_items, talking_points,
                   risks_opportunities, brief, prov, gpc, toggles, mcp,
                   participants, cursor, contact, email_data, calendar_data,
                   crm_data, sources_accessed, attempted, errored, context,
                   pipeVars, extractVars, calendarVars, laterVars>>

\* generate returned: orchestrator.py:65-70
GenerateReturns ==
    /\ pc = "generate"
    /\ \E result \in GenerateResults : generated' = result
    /\ completed' = completed \cup {"generate"}
    /\ pc' = "merge_action_items"
    /\ UNCHANGED <<insights, action_items, talking_points,
                   risks_opportunities, brief, prov, gatherVars, caller,
                   data_sources, extract_call, generate_call, db,
                   extractVars, calendarVars, laterVars>>

\* generated.open_action_items or insights.action_items is read on an
\* unvalidated output: AttributeError before _merge_action_items is entered,
\* orchestrator.py:73-76
MergeArgumentsRaise ==
    /\ pc = "merge_action_items"
    /\ generated = Unvalidated \/ insights = Unvalidated
    /\ raised_in' = "merge"
    /\ pc' = "raised"
    /\ UNCHANGED <<generated, insights, action_items, talking_points,
                   risks_opportunities, brief, prov, gpc, toggles, mcp,
                   participants, cursor, contact, email_data, calendar_data,
                   crm_data, sources_accessed, attempted, errored, context,
                   pipeVars, extractVars, calendarVars, laterVars>>

\* BriefDB(...) built from the Brief: api/meetings.py:180-195; the columns
\* the constructor is not given take their defaults, db_models.py:57-58
BriefDBOf(b) ==
    [id |-> b.id,
     meeting_id |-> "meeting-1",
     title |-> b.title,
     meeting_objective |-> b.meeting_objective,
     executive_summary |-> b.executive_summary,
     participant_profiles |-> b.participant_profiles,
     relationship_timeline |-> b.relationship_timeline,
     open_action_items |-> b.open_action_items,
     talking_points |-> b.talking_points,
     risks_opportunities |-> b.risks_opportunities,
     email_context |-> b.email_context,
     crm_context |-> b.crm_context,
     previous_meetings_summary |-> b.previous_meetings_summary,
     generated_at |-> b.generated_at,
     generation_time_seconds |-> 0,
     data_sources_used |-> <<>>,
     created_at |-> "t-stored",
     updated_at |-> "t-stored"]

\* generate_brief returned to the endpoint, which adds and commits the
\* record: api/meetings.py:179-198
StoreBrief ==
    /\ pc = "returned"
    /\ caller = "endpoint"
    /\ db' = Append(db, BriefDBOf(brief))
    /\ pc' = "stored"
    /\ UNCHANGED <<generated, insights, action_items, talking_points,
                   risks_opportunities, brief, prov, gatherVars, caller,
                   data_sources, extract_call, generate_call, completed,
                   extractVars, calendarVars, laterVars>>

PipelineNext ==
    \/ GatherNext
    \/ GatherRaises
    \/ ExtractStarts
    \/ ExtractRaises
    \/ ExtractReturns
    \/ GenerateRaises
    \/ GenerateReturns
    \/ MergeArgumentsRaise
    \/ MergeNext
    \/ StoreBrief

SpecPipeline == PipelineInit /\ [][PipelineNext]_vars

----------------------------------------------------------------------------
(* gather_calendar_context as one call, context_gatherer.py:94-120: the    *)
(* events list_events returns are an input of the call.                    *)

\* further events list_events can return: one without attendees, one whose
\* second attendee is a participant in another case, one whose attendee has
\* no email
MoreCalendarEvents ==
    {[summary |-> "solo"],
     [summary |-> "duo",
      attendees |-> <<[email |-> <<"c", "y", "@", "x">>],
                      [email |-> <<"b", "o", "b", "@", "x">>]>>],
     [summary |-> "room", attendees |-> <<[displayName |-> "room 4"]>>]}

\* list_events raises, or returns a list of events
ListEventsOutcomes ==
    {[raises |-> TRUE, events |-> <<>>]}
        \cup {[raises |-> FALSE, events |-> fetched] :
                 fetched \in SeqsUpTo(CalendarEvents \cup MoreCalendarEvents,
                                      MaxEvents)}

CalendarCalls ==
    {[integration |-> m, participants |-> people, list_events |-> outcome] :
        m \in McpStates, people \in ParticipantLists,
        outcome \in ListEventsOutcomes}

\* the integration is absent or not enabled, or list_events raised: [];
\* otherwise the events kept by the filter, up to the first that raises
gather_calendar_context(call) ==
    IF call.integration # "enabled" \/ call.list_events.raises
    THEN <<>>
    ELSE FilterEvents(call.list_events.events, call.participants, 1, <<>>).events

CalendarInit ==
    /\ cal_call \in CalendarCalls
    /\ cal_result = NoRecord
    /\ GatherIdle
    /\ MergeIdle
    /\ PipeIdle
    /\ LaterIdle
    /\ ExtractIdle

GatherCalendarContext ==
    /\ cal_result = NoRecord
    /\ cal_result' = [events |-> gather_calendar_context(cal_call)]
    /\ UNCHANGED <<cal_call, mergeVars, gatherVars, pipeVars, extractVars, laterVars>>

CalendarNext == GatherCalendarContext

SpecCalendar == CalendarInit /\ [][CalendarNext]_vars

----------------------------------------------------------------------------
(* InsightExtractorAgent, insight_extractor.py:76-168: what each entry     *)
(* point submits to the extraction chain as "interactions".  The text is   *)
(* kept as the sequence of the parts that are joined, each part as the     *)
(* record of the values formatted into it.                                 *)

ThreadCap == 15         \* email_threads[:15]
NoteCap == 10           \* meeting_notes[:10]
BodyCut == 800          \* thread.get('body', '')[:800] in extract
NotesCut == 1000        \* note.get('notes', '')[:1000] in extract
EmailsBodyCut == 1000   \* thread.get('body', '')[:1000] in extract_from_emails
MeetingsNotesCut == 1500  \* note.get('notes', '')[:1500] in extract_from_meetings

MaxThreads == 16     \* e-mail threads given to an entry point
MaxNotes == 11       \* meeting notes given to an entry point
MaxTextLen == 1501   \* characters of the longest body or notes text

\* one part of extract for an e-mail thread: insight_extractor.py:143-148
EmailPart(thread) ==
    [kind |-> "Email",
     date |-> Get(thread, "date", "Unknown"),
     from |-> Get(thread, "from", "Unknown"),
     to |-> Get(thread, "to", "Unknown"),
     subject |-> Get(thread, "subject", ""),
     body |-> Slice(Get(thread, "body", <<>>), BodyCut)]

\* one part of extract for a meeting note: insight_extractor.py:152-156
MeetingPart(note) ==
    [kind |-> "Meeting",
     date |-> Get(note, "date", "Unknown"),
     title |-> Get(note, "title", "Untitled"),
     notes |-> Slice(Get(note, "notes", <<>>), NotesCut)]

\* one part of extract_from_emails: insight_extractor.py:84-88
EmailPartFromEmails(thread) ==
    [kind |-> "Email",
     date |-> Get(thread, "date", "Unknown date"),
     from |-> Get(thread, "from", "Unknown"),
     to |-> Get(thread, "to", "Unknown"),
     subject |-> Get(thread, "subject", "No subject"),
     body |-> Slice(Get(thread, "body", <<>>), EmailsBodyCut)]

\* one part of extract_from_meetings: insight_extractor.py:112-115
MeetingPartFromMeetings(note) ==
    [kind |-> "Meeting",
     date |-> Get(note, "date", "Unknown date"),
     title |-> Get(note, "title", "Untitled"),
     attendees |-> Get(note, "attendees", <<>>),
     notes |-> Slice(Get(note, "notes", <<>>), MeetingsNotesCut)]

\* "<separator>".join(parts), or the text put in its place when there is
\* no part
Joined(parts, separator, if_empty) ==
    [parts |-> parts, separator |-> separator,
     text_if_empty |-> IF parts = <<>> THEN if_empty ELSE None]

\* mutant: the meeting notes are put before the e-mail threads
extract_notes_first(email_threads, meeting_notes) ==
    LET threads == Slice(email_threads, ThreadCap)
        notes == Slice(meeting_notes, NoteCap)
    IN  Joined([i \in DOMAIN notes |-> MeetingPart(notes[i])]
                   \o [i \in DOMAIN threads |-> EmailPart(threads[i])],
               "\n\n---\n\n", "No interaction data available")

\* the interactions extract submits: insight_extractor.py:139-161
extract(email_threads, meeting_notes) ==
    LET threads == Slice(email_threads, ThreadCap)
        notes == Slice(meeting_notes, NoteCap)
    IN  Joined([i \in DOMAIN threads |-> EmailPart(threads[i])]
                   \o [i \in DOMAIN notes |-> MeetingPart(notes[i])],
               "\n\n---\n\n", "No interaction data available")

\* the interactions extract_from_emails submits: insight_extractor.py:83-95
extract_from_emails(email_threads) ==
    LET threads == Slice(email_threads, ThreadCap)
    IN  Joined([i \in DOMAIN threads |-> EmailPartFromEmails(threads[i])],
               "\n\n", "No email data available")

\* the interactions extract_from_meetings submits:
\* insight_extractor.py:111-122
extract_from_meetings(meeting_notes) ==
    LET notes == Slice(meeting_notes, NoteCap)
    IN  Joined([i \in DOMAIN notes |-> MeetingPartFromMeetings(notes[i])],
               "\n\n", "No meeting data available")

\* the i-th e-mail thread and meeting note of a call, told apart by their
\* dates
Thread(i) ==
    [date |-> ToString(i), from |-> "ann@x", subject |-> "re",
     body |-> Rep("b", i)]
Note(i) ==
    [date |-> ToString(100 + i), title |-> "sync", attendees |-> <<"ann@x">>,
     notes |-> Rep("n", i)]

ThreadLists == {[i \in 1..n |-> Thread(i)] : n \in 0..MaxThreads}
NoteLists == {[i \in 1..n |-> Note(i)] : n \in 0..MaxNotes}

\* text lengths on either side of each cut
TextLens ==
    {0, BodyCut, BodyCut + 1, NotesCut, NotesCut + 1, MeetingsNotesCut,
     MaxTextLen}

\* one thread, or one note, with a text of a given length
LongThreadLists == {<<[date |-> "d", body |-> Rep("x", n)]>> : n \in TextLens}
LongNoteLists == {<<[date |-> "d", notes |-> Rep("y", n)]>> : n \in TextLens}

ExtractCall(name, email_threads, meeting_notes) ==
    [name |-> name, email_threads |-> email_threads,
     meeting_notes |-> meeting_notes]

\* the calls of the three entry points: lists on either side of the record
\* caps, and single records on either side of the text cuts
ExtractCalls ==
    {ExtractCall("extract", threads, notes) :
        threads \in ThreadLists, notes \in NoteLists}
    \cup {ExtractCall("extract", threads, notes) :
             threads \in LongThreadLists, notes \in LongNoteLists}
    \cup {ExtractCall("extract_from_emails", threads, <<>>) :
             threads \in ThreadLists \cup LongThreadLists}
    \cup {ExtractCall("extract_from_meetings", <<>>, notes) :
             notes \in NoteLists \cup LongNoteLists}

ExtractInit ==
    /\ ecall \in ExtractCalls
    /\ interactions = NoRecord
    /\ GatherIdle
    /\ MergeIdle
    /\ PipeIdle
    /\ LaterIdle
    /\ CalendarIdle

\* extract builds the interactions and invokes the chain:
\* insight_extractor.py:131-164
Extract ==
    /\ ecall.name = "extract"
    /\ interactions = NoRecord
    /\ interactions' = extract(ecall.email_threads, ecall.meeting_notes)
    /\ UNCHANGED <<ecall, mergeVars, gatherVars, pipeVars, calendarVars, laterVars>>

\* insight_extractor.py:76-98
ExtractFromEmails ==
    /\ ecall.name = "extract_from_emails"
    /\ interactions = NoRecord
    /\ interactions' = extract_from_emails(ecall.email_threads)
    /\ UNCHANGED <<ecall, mergeVars, gatherVars, pipeVars, calendarVars, laterVars>>

\* insight_extractor.py:104-125
ExtractFromMeetings ==
    /\ ecall.name = "extract_from_meetings"
    /\ interactions = NoRecord
    /\ interactions' = extract_from_meetings(ecall.meeting_notes)
    /\ UNCHANGED <<ecall, mergeVars, gatherVars, pipeVars, calendarVars, laterVars>>

ExtractNext ==
    \/ Extract
    \/ ExtractFromEmails
    \/ ExtractFromMeetings

SpecExtract == ExtractInit /\ [][ExtractNext]_vars

----------------------------------------------------------------------------
(* _format_crm_context as one call, orchestrator.py:221-239 *)

MaxContacts == 4   \* contact records of a crm_data
MaxDeals == 4      \* deal records of a crm_data

\* contact and deal dictionaries, some without the keys read with a default
CrmContacts ==
    {[name |-> "Ann", title |-> "CTO", company |-> "Acme"],
     [name |-> "Bob"]}
CrmDeal(i) ==
    IF i % 2 = 1
    THEN [name |-> "deal-" \o ToString(i), stage |-> "won", value |-> "10"]
    ELSE [name |-> "deal-" \o ToString(i)]

\* the crm_data a context can hold: the empty dict, a dict without
\* contacts, and dicts with contacts and deals on either side of the caps
CrmDatas ==
    {<<>>, [deals |-> <<CrmDeal(1)>>]}
        \cup {[contacts |-> contacts, deals |-> [i \in 1..n |-> CrmDeal(i)],
               accounts |-> <<>>] :
                 contacts \in SeqsUpTo(CrmContacts, MaxContacts),
                 n \in 0..MaxDeals}

CrmFormatInit ==
    /\ crm_arg \in {[crm_data |-> d] : d \in CrmDatas}
    /\ crm_text = NoRecord
    /\ GatherIdle
    /\ MergeIdle
    /\ PipeIdle
    /\ ExtractIdle
    /\ CalendarIdle
    /\ ApiIdle
    /\ RunsIdle

FormatCrmContext ==
    /\ crm_text = NoRecord
    /\ crm_text' = [returned |-> _format_crm_context(crm_arg.crm_data)]
    /\ UNCHANGED <<crm_arg, mergeVars, gatherVars, pipeVars, extractVars,
                   calendarVars, apiVars, runs>>

CrmFormatNext == FormatCrmContext

SpecCrmFormat == CrmFormatInit /\ [][CrmFormatNext]_vars

----------------------------------------------------------------------------
(* The briefs API: generate_meeting_brief of api/meetings.py and            *)
(* get_brief, update_brief, delete_brief of api/briefs.py, over the briefs  *)
(* table.  A generate request runs generate_brief to its end and commits    *)
(* the row in one step.                                                     *)

MaxBriefs == 2   \* briefs generated in one history

\* str(uuid.uuid4()): an id no earlier brief has, orchestrator.py:93
BriefId(n) == "brief-" \o ToString(n)
BriefIds == {BriefId(n) : n \in 1..MaxBriefs}

\* what the collaborators answer in one generate_brief run: the draft, the
\* insights and the crm_data of the context
ApiCase(k, crm) ==
    Inputs(DraftFill(k), <<>>, [i \in 1..k |-> DraftPoint(i)],
           [i \in 1..k |-> DraftRisk(i)], <<Concern(1)>>, <<>>)
        @@ [crm_data |-> crm]

ApiCases ==
    {ApiCase(0, <<>>),
     ApiCase(2, [contacts |-> <<[name |-> "Ann"]>>, deals |-> <<>>,
                 accounts |-> <<>>]),
     ApiCase(MaxDraftItems, <<>>)}

\* the Brief generate_brief returns on these answers: orchestrator.py:72-111
GeneratedBriefOf(case) ==
    BriefOf(case.generated,
            Items(_merge_action_items(case.generated.open_action_items,
                                      case.insights.action_items)),
            Items(_enhance_talking_points(case.generated.talking_points,
                                          case.insights)),
            Items(_merge_risks_opportunities(
                      case.generated.risks_opportunities,
                      case.insights.concerns, case.insights.opportunities)),
            case.crm_data)

\* the rows of the briefs table with this id (the id is the primary key)
RowsOf(brief_id) == {i \in DOMAIN db : db[i].id = brief_id}

\* select(BriefDB).where(BriefDB.id == brief_id) ... scalar_one_or_none()
RowOf(brief_id) == db[CHOOSE i \in RowsOf(brief_id) : TRUE]

\* POST /meetings/{meeting_id}/brief answers 200: meetings.py:143-205
GenerateMeetingBrief ==
    /\ Len(issued) < MaxBriefs
    /\ \E case \in ApiCases :
          LET made == [GeneratedBriefOf(case) EXCEPT
                          !.id = BriefId(Len(issued) + 1)]
          IN  /\ issued' = Append(issued, made)
              /\ db' = Append(db, BriefDBOf(made))
              /\ response' = [op |-> "generate_meeting_brief",
                              status |-> 200, brief_id |-> made.id]
    /\ UNCHANGED <<mergeVars, gatherVars, caller, data_sources, extract_call,
                   generate_call, completed, extractVars, calendarVars,
                   crmVars, runs>>

\* the meeting is not in the table (404), or generate_brief or the commit
\* raised (500): nothing is stored, meetings.py:159-160, 166, 198
GenerateMeetingBriefFails ==
    /\ \E status \in {404, 500} :
          response' = [op |-> "generate_meeting_brief", status |-> status]
    /\ UNCHANGED <<mergeVars, gatherVars, pipeVars, extractVars,
                   calendarVars, crmVars, issued, runs>>

\* ParticipantProfile(**p), briefs.py:74
ParticipantProfileOfRow(p) ==
    [email |-> p.email,
     name |-> Get(p, "name", None),
     title |-> Get(p, "title", None),
     company |-> Get(p, "company", None),
     linkedin_url |-> Get(p, "linkedin_url", None),
     recent_interactions |-> Get(p, "recent_interactions", <<>>),
     key_topics |-> Get(p, "key_topics", <<>>),
     sentiment |-> Get(p, "sentiment", None)]

\* mutant of ActionItemOfRow: the due date is not read back
ActionItemOfRow_no_due_date(a) ==
    [description |-> a.description,
     assignee |-> Get(a, "assignee", None),
     due_date |-> None,
     status |-> Get(a, "status", "open"),
     source |-> Get(a, "source", None)]

\* ActionItem(**a), briefs.py:76
ActionItemOfRow(a) ==
    [description |-> a.description,
     assignee |-> Get(a, "assignee", None),
     due_date |-> Get(a, "due_date", None),
     status |-> Get(a, "status", "open"),
     source |-> Get(a, "source", None)]

\* TalkingPoint(**t), briefs.py:77
TalkingPointOfRow(t) ==
    [topic |-> t.topic,
     context |-> t.context,
     priority |-> Get(t, "priority", "medium"),
     source |-> Get(t, "source", None)]

\* RiskOpportunity(**r), briefs.py:78
RiskOpportunityOfRow(r) ==
    [type |-> r.type,
     title |-> r.title,
     description |-> r.description,
     severity |-> Get(r, "severity", "medium"),
     recommended_action |-> Get(r, "recommended_action", None)]

\* BriefResponse(...), briefs.py:68-87
BriefResponseOf(row) ==
    [id |-> row.id,
     meeting_id |-> row.meeting_id,
     title |-> row.title,
     meeting_objective |-> row.meeting_objective,
     executive_summary |-> row.executive_summary,
     participant_profiles |->
         [i \in DOMAIN row.participant_profiles |->
             ParticipantProfileOfRow(row.participant_profiles[i])],
     relationship_timeline |-> row.relationship_timeline,
     open_action_items |->
         [i \in DOMAIN row.open_action_items |->
             ActionItemOfRow(row.open_action_items[i])],
     talking_points |->
         [i \in DOMAIN row.talking_points |->
             TalkingPointOfRow(row.talking_points[i])],
     risks_opportunities |->
         [i \in DOMAIN row.risks_opportunities |->
             RiskOpportunityOfRow(row.risks_opportunities[i])],
     email_context |-> row.email_context,
     crm_context |-> row.crm_context,
     previous_meetings_summary |-> row.previous_meetings_summary,
     generated_at |-> row.generated_at,
     created_at |-> row.created_at,
     updated_at |-> row.updated_at,
     generation_time_seconds |-> row.generation_time_seconds,
     data_sources_used |-> row.data_sources_used]

\* GET /briefs/{brief_id}: briefs.py:55-88
GetBrief ==
    /\ \E brief_id \in BriefIds :
          response' =
              IF RowsOf(brief_id) = {}
              THEN [op |-> "get_brief", status |-> 404]
              ELSE [op |-> "get_brief", status |-> 200,
                    body |-> BriefResponseOf(RowOf(brief_id))]
    /\ UNCHANGED <<mergeVars, gatherVars, pipeVars, extractVars,
                   calendarVars, crmVars, issued, runs>>

\* allowed_fields, briefs.py:106
AllowedFields ==
    {"title", "meeting_objective", "executive_summary", "talking_points"}

\* the request bodies of update_brief: any JSON object is accepted
UpdateBodies ==
    {[title |-> <<"Brief: ", "renamed">>, id |-> "brief-0",
      generated_at |-> "t-forged"],
     [talking_points |->
         [i \in 1..(PointCap + 1) |-> [topic |-> Short(i), context |-> <<"u">>]]]}

\* the row after the loop over allowed_fields and the updated_at
\* assignment: briefs.py:106-111
UpdatedRow(row, updates) ==
    [f \in DOMAIN row |->
        IF f = "updated_at" THEN "t-updated"
        ELSE IF f \in AllowedFields /\ f \in DOMAIN updates THEN updates[f]
        ELSE row[f]]

\* PUT /briefs/{brief_id}: briefs.py:91-115
UpdateBrief ==
    /\ \E brief_id \in BriefIds, updates \in UpdateBodies :
          IF RowsOf(brief_id) = {}
          THEN /\ response' = [op |-> "update_brief", status |-> 404]
               /\ db' = db
          ELSE /\ db' = [i \in DOMAIN db |->
                            IF db[i].id = brief_id
                            THEN UpdatedRow(db[i], updates) ELSE db[i]]
               /\ response' = [op |-> "update_brief", status |-> 200,
                               brief_id |-> brief_id]
    /\ UNCHANGED <<mergeVars, gatherVars, caller, data_sources, extract_call,
                   generate_call, completed, extractVars, calendarVars,
                   crmVars, issued, runs>>

\* the table without the row of this id
WithoutRow(rows, brief_id) ==
    LET kept == {i \in DOMAIN rows : rows[i].id # brief_id}
        nth(n) == CHOOSE i \in kept : Cardinality({j \in kept : j <= i}) = n
    IN  [n \in 1..Cardinality(kept) |-> rows[nth(n)]]

\* DELETE /briefs/{brief_id}: briefs.py:118-135
DeleteBrief ==
    /\ \E brief_id \in BriefIds :
          IF RowsOf(brief_id) = {}
          THEN /\ response' = [op |-> "delete_brief", status |-> 404]
               /\ db' = db
          ELSE /\ db' = WithoutRow(db, brief_id)
               /\ response' = [op |-> "delete_brief", status |-> 200,
                               brief_id |-> brief_id]
    /\ UNCHANGED <<mergeVars, gatherVars, caller, data_sources, extract_call,
                   generate_call, completed, extractVars, calendarVars,
                   crmVars, issued, runs>>

\* the service has started and the briefs table is empty
ApiInit ==
    /\ issued = <<>>
    /\ response = NoRecord
    /\ MergeIdle
    /\ GatherIdle
    /\ PipeIdle
    /\ ExtractIdle
    /\ CalendarIdle
    /\ CrmFormatIdle
    /\ RunsIdle

ApiNext ==
    \/ GenerateMeetingBrief
    \/ GenerateMeetingBriefFails
    \/ GetBrief
    \/ UpdateBrief
    \/ DeleteBrief

SpecApi == ApiInit /\ [][ApiNext]_vars

----------------------------------------------------------------------------
(* Several generate_brief calls in flight on one event loop.  A call gives  *)
(* up control only at its three awaits (gather, extract, generate:          *)
(* orchestrator.py:40, 53, 65); the merges and Brief(...) after the last    *)
(* await run without suspension.  All the state of a call is in its frame.  *)

MaxRequests == 2   \* requests in flight

Requests == 1..MaxRequests

\* the frame of a call before its first await
NewRun ==
    [pc |-> "gather", context |-> NoRecord, insights |-> NoInsights,
     generated |-> NoBrief, brief |-> NoRecord]

\* what the three awaited collaborators can answer
RunContexts ==
    {[crm_data |-> <<>>],
     [crm_data |-> [contacts |-> <<[name |-> "Ann"]>>, deals |-> <<>>,
                    accounts |-> <<>>]]}
RunInsights ==
    {NoInsights,
     [action_items |->
          <<Insight("action_item", LongAUp, "email", <<"ann@x.io">>, "high",
                    "open")>>,
      concerns |-> <<Concern(1)>>,
      opportunities |-> <<Opportunity(1)>>]}
RunDrafts ==
    {ApiCase(k, <<>>).generated : k \in {0, 1, 2}}

\* await self.context_gatherer.gather(...) returned: orchestrator.py:40-50
RunGatherReturns(r) ==
    /\ runs[r].pc = "gather"
    /\ \E answer \in RunContexts :
          runs' = [runs EXCEPT ![r].context = answer, ![r].pc = "extract"]
    /\ UNCHANGED <<mergeVars, gatherVars, pipeVars, extractVars,
                   calendarVars, crmVars, apiVars>>

\* await self.insight_extractor.extract(...) returned: orchestrator.py:53-62
RunExtractReturns(r) ==
    /\ runs[r].pc = "extract"
    /\ \E answer \in RunInsights :
          runs' = [runs EXCEPT ![r].insights = answer, ![r].pc = "generate"]
    /\ UNCHANGED <<mergeVars, gatherVars, pipeVars, extractVars,
                   calendarVars, crmVars, apiVars>>

\* the dedup keys of the action items of the calls that have returned
KeysOfReturned ==
    UNION {{dedup_key(runs[q].brief.open_action_items[i].description) :
               i \in DOMAIN runs[q].brief.open_action_items} :
           q \in {q \in Requests : runs[q].pc = "returned"}}

\* mutant of RunGenerateReturns: the seen set of _merge_action_items
\* outlives the call and is shared by all calls
RunGenerateReturns_shared_seen(r) ==
    /\ runs[r].pc = "generate"
    /\ \E answer \in RunDrafts :
          LET ins == runs[r].insights
              made ==
                BriefOf(answer,
                    Items(Slice(InsightItemLoop(ins.action_items, 1,
                                    DraftItemLoop(answer.open_action_items, 1,
                                        [items |-> <<>>,
                                         seen |-> KeysOfReturned])).items,
                                ActionCap)),
                    Items(_enhance_talking_points(answer.talking_points, ins)),
                    Items(_merge_risks_opportunities(
                              answer.risks_opportunities, ins.concerns,
                              ins.opportunities)),
                    runs[r].context.crm_data)
          IN  runs' = [runs EXCEPT ![r].generated = answer,
                                   ![r].brief = made,
                                   ![r].pc = "returned"]
    /\ UNCHANGED <<mergeVars, gatherVars, pipeVars, extractVars,
                   calendarVars, crmVars, apiVars>>

\* await self.brief_generator.generate(...) returned; the three merges and
\* Brief(...) follow without an await: orchestrator.py:65-111
RunGenerateReturns(r) ==
    /\ runs[r].pc = "generate"
    /\ \E answer \in RunDrafts :
          LET ins == runs[r].insights
              made ==
                BriefOf(answer,
                    Items(_merge_action_items(answer.open_action_items,
                                              ins.action_items)),
                    Items(_enhance_talking_points(answer.talking_points, ins)),
                    Items(_merge_risks_opportunities(
                              answer.risks_opportunities, ins.concerns,
                              ins.opportunities)),
                    runs[r].context.crm_data)
          IN  runs' = [runs EXCEPT ![r].generated = answer,
                                   ![r].brief = made,
                                   ![r].pc = "returned"]
    /\ UNCHANGED <<mergeVars, gatherVars, pipeVars, extractVars,
                   calendarVars, crmVars, apiVars>>

\* the awaited step raised: the exception leaves this call alone,
\* orchestrator.py:40, 53, 65
RunRaises(r) ==
    /\ runs[r].pc \in {"gather", "extract", "generate"}
    /\ runs' = [runs EXCEPT ![r].pc = "raised"]
    /\ UNCHANGED <<mergeVars, gatherVars, pipeVars, extractVars,
                   calendarVars, crmVars, apiVars>>

\* each request has built its own BriefOrchestrator and called
\* generate_brief: meetings.py:165-177
ConcurrentInit ==
    /\ runs = [r \in Requests |-> NewRun]
    /\ MergeIdle
    /\ GatherIdle
    /\ PipeIdle
    /\ ExtractIdle
    /\ CalendarIdle
    /\ CrmFormatIdle
    /\ ApiIdle

ConcurrentNext ==
    \E r \in Requests :
        \/ RunGatherReturns(r)
        \/ RunExtractReturns(r)
        \/ RunGenerateReturns(r)
        \/ RunRaises(r)

SpecConcurrent == ConcurrentInit /\ [][ConcurrentNext]_vars

----------------------------------------------------------------------------
(* Properties of the merge, stated on the Brief generate_brief returns *)

Returned == pc = "returned"

\* the dedup key of the specification: the case-folded first 50 characters
KeyOf(text) ==
    [i \in 1..(IF Len(text) < 50 THEN Len(text) ELSE 50) |-> LowerChar(text[i])]

DraftDescription(i) ==
    Get(generated.open_action_items[i], "description", <<>>)

\* the dedup keys of the draft action items, by index
DraftKeyAt == [i \in DOMAIN generated.open_action_items |-> KeyOf(DraftDescription(i))]

\* indices of the draft action items that are the first with their key
FirstOfKey ==
    LET key == DraftKeyAt
    IN  {i \in DOMAIN key : \A j \in 1..(i - 1) : key[j] # key[i]}

DraftKeys == {DraftKeyAt[i] : i \in DOMAIN generated.open_action_items}

HasOrigin(tags, origin) == \E i \in DOMAIN tags : tags[i].origin = origin

\* C1: the returned Brief has at most 10 action items, at most 8 talking
\* points and at most 6 risks/opportunities.
C1_Caps ==
    Returned =>
        /\ Len(brief.open_action_items) <= 10
        /\ Len(brief.talking_points) <= 8
        /\ Len(brief.risks_opportunities) <= 6

\* all three merges had more entries than their cap allows
C1_Witness ==
    /\ Returned
    /\ Cardinality(DraftKeys) > 10
    /\ Len(generated.talking_points) > 8
    /\ Len(generated.risks_opportunities) > 6
    /\ insights.concerns # <<>>
    /\ Len(brief.open_action_items) = 10
    /\ Len(brief.talking_points) = 8
    /\ Len(brief.risks_opportunities) = 6

\* C2: no two entries of the final action_items have the same dedup key
\* (the lower-cased first 50 characters of the description).
C2_NoDuplicateActionKeys ==
    Returned =>
        LET key == [i \in DOMAIN brief.open_action_items |->
                       KeyOf(brief.open_action_items[i].description)]
        IN  \A i, j \in DOMAIN key : i # j => key[i] # key[j]

\* the inputs held a draft/draft, a draft/insight and an insight/insight
\* pair of equal key and different position, and the list is under the cap
C2_Witness ==
    /\ Returned
    /\ Len(brief.open_action_items) < 10
    /\ \E i, j \in DOMAIN generated.open_action_items :
          /\ i < j
          /\ DraftDescription(i) # DraftDescription(j)
          /\ KeyOf(DraftDescription(i)) = KeyOf(DraftDescription(j))
    /\ \E i \in DOMAIN generated.open_action_items,
          j \in DOMAIN insights.action_items :
          /\ DraftDescription(i) # insights.action_items[j].content
          /\ KeyOf(DraftDescription(i)) = KeyOf(insights.action_items[j].content)
    /\ \E i, j \in DOMAIN insights.action_items :
          /\ i < j
          /\ KeyOf(insights.action_items[i].content)
               = KeyOf(insights.action_items[j].content)

\* C3: no two entries of the final talking_points share a dedup key (the
\* case-folded 50-character prefix of the topic).
C3_NoDuplicatePointKeys ==
    Returned =>
        LET key == [i \in DOMAIN brief.talking_points |->
                       KeyOf(brief.talking_points[i].topic)]
        IN  \A i, j \in DOMAIN key : i # j => key[i] # key[j]

\* C4: in the final action_items every entry built from a draft item comes
\* before every entry built from an insight, and the entries of each origin
\* keep their input order.
C4_DraftBeforeInsight ==
    Returned =>
        LET final == brief.open_action_items
            tags  == prov.open_action_items
        IN  /\ Len(tags) = Len(final)
            /\ \A i \in DOMAIN final :
                  \/ /\ tags[i].origin = "draft"
                     /\ tags[i].idx \in DOMAIN generated.open_action_items
                     /\ final[i].description = DraftDescription(tags[i].idx)
                  \/ /\ tags[i].origin = "insight"
                     /\ tags[i].idx \in DOMAIN insights.action_items
                     /\ final[i].description
                          = insights.action_items[tags[i].idx].content
            /\ \A i, j \in DOMAIN final :
                  i < j =>
                     /\ tags[i].origin = "insight" => tags[j].origin = "insight"
                     /\ tags[i].origin = tags[j].origin => tags[i].idx < tags[j].idx

\* the final list holds at least two draft-built and two insight-built entries
C4_Witness ==
    /\ Returned
    /\ \E i, j, k, l \in DOMAIN prov.open_action_items :
          /\ i < j /\ j < k /\ k < l
          /\ prov.open_action_items[j].origin = "draft"
          /\ prov.open_action_items[k].origin = "insight"

\* the member of the index set `first` that is its n-th smallest
Nth(first, n) == CHOOSE i \in first : Cardinality({j \in first : j <= i}) = n

\* C5: if the draft action items hold at least 10 distinct dedup keys, the
\* final action_items are the first 10 key-distinct draft items in their
\* order, and no insight-derived item appears.
C5_DraftFillsCap ==
    LET first == FirstOfKey
    IN  (Returned /\ Cardinality(first) >= 10) =>
            /\ Len(brief.open_action_items) = 10
            /\ \A n \in 1..10 :
                  brief.open_action_items[n] =
                     ActionItemOfDraft(generated.open_action_items[Nth(first, n)])
            /\ ~HasOrigin(prov.open_action_items, "insight")

\* the draft holds a duplicate among its first 10 items, more than 10 distinct
\* keys, and an insight has a key no draft item has
C5_Witness ==
    LET first == FirstOfKey
        keys  == DraftKeys
    IN  /\ Returned
        /\ Cardinality(first) > 10
        /\ \E i \in 1..10 : i \notin first
        /\ \E j \in DOMAIN insights.action_items :
              KeyOf(insights.action_items[j].content) \notin keys

\* every surviving draft index of a list is among the tags of the final list
KeepsDrafts(tags, surviving) ==
    HasOrigin(tags, "concern") \/ HasOrigin(tags, "opportunity")
        \/ HasOrigin(tags, "insight")
    => \A d \in surviving :
          \E i \in DOMAIN tags : tags[i].origin = "draft" /\ tags[i].idx = d

\* C6: in each of the three merges, whenever the final list contains an
\* insight-derived entry, every draft-authored entry that survived
\* deduplication is in the final list too.
C6_TruncationKeepsDrafts ==
    Returned =>
        /\ LET first == FirstOfKey
           IN  KeepsDrafts(prov.open_action_items, first)
        /\ KeepsDrafts(prov.talking_points, DOMAIN generated.talking_points)
        /\ KeepsDrafts(prov.risks_opportunities,
                       DOMAIN generated.risks_opportunities)

\* the cap cut insight-derived risks while draft and insight-derived entries
\* are both in the final list
C6_Witness ==
    /\ Returned
    /\ Len(generated.risks_opportunities) >= 2
    /\ Len(generated.risks_opportunities) + Len(insights.concerns)
         + Len(insights.opportunities) > 6
    /\ HasOrigin(prov.risks_opportunities, "draft")
    /\ HasOrigin(prov.risks_opportunities, "concern")

\* the number of concern / opportunity points the enhancement appends
NConcernPoints == IF Len(insights.concerns) < 3 THEN Len(insights.concerns) ELSE 3
NOppPoints ==
    IF Len(insights.opportunities) < 2 THEN Len(insights.opportunities) ELSE 2

\* C7: the final talking_points are the first 8 of: the draft points in
\* order, one point per concern for the first 3 concerns with priority high,
\* one point per opportunity for the first 2 opportunities with priority
\* medium, whatever the insights' own priorities are.
C7_TalkingPointOrder ==
    Returned =>
        LET final == brief.talking_points
            nd    == Len(generated.talking_points)
            total == nd + NConcernPoints + NOppPoints
        IN  /\ Len(final) = (IF total < 8 THEN total ELSE 8)
            /\ \A i \in DOMAIN final :
                  IF i <= nd
                  THEN final[i] = TalkingPointOfDraft(generated.talking_points[i])
                  ELSE IF i <= nd + NConcernPoints
                  THEN /\ final[i].context = insights.concerns[i - nd].content
                       /\ final[i].source = insights.concerns[i - nd].source
                       /\ final[i].priority = "high"
                  ELSE /\ final[i].context =
                            insights.opportunities[i - nd - NConcernPoints].content
                       /\ final[i].source =
                            insights.opportunities[i - nd - NConcernPoints].source
                       /\ final[i].priority = "medium"

\* more than 3 concerns and 2 opportunities were extracted, some with another
\* priority than the forced one, and points of all three origins are kept
C7_Witness ==
    /\ Returned
    /\ Len(insights.concerns) > 3
    /\ Len(insights.opportunities) > 2
    /\ \E i \in 1..3 : insights.concerns[i].priority # "high"
    /\ \E i \in 1..2 : insights.opportunities[i].priority # "medium"
    /\ HasOrigin(prov.talking_points, "draft")
    /\ HasOrigin(prov.talking_points, "opportunity")
    /\ Len(brief.talking_points) = 8

\* the final talking points built from a concern
ConcernPointIndices ==
    {i \in DOMAIN prov.talking_points : prov.talking_points[i].origin = "concern"}

AfterDraftPoints(i) ==
    \A j \in DOMAIN prov.talking_points :
        prov.talking_points[j].origin = "draft" => j < i

\* C8 as stated: the topic of a concern's talking point is "Address
\* concern: " followed by the concern content, the whole string cut to its
\* first 50 characters; its priority is high and it follows the draft points.
C8_TopicCutWhole ==
    Returned =>
        \A i \in ConcernPointIndices :
            LET c == insights.concerns[prov.talking_points[i].idx]
            IN  /\ brief.talking_points[i].topic =
                      SubSeq(AddressConcern \o c.content, 1,
                             IF Len(AddressConcern \o c.content) < 50
                             THEN Len(AddressConcern \o c.content) ELSE 50)
                /\ brief.talking_points[i].priority = "high"
                /\ AfterDraftPoints(i)

\* C8 amended: the topic of a concern's talking point is "Address concern: "
\* followed by the first 50 characters of the concern content; its priority
\* is high and it follows the draft points.
C8_TopicCutContent ==
    Returned =>
        \A i \in ConcernPointIndices :
            LET c == insights.concerns[prov.talking_points[i].idx]
            IN  /\ brief.talking_points[i].topic =
                      AddressConcern \o
                      SubSeq(c.content, 1,
                             IF Len(c.content) < 50 THEN Len(c.content) ELSE 50)
                /\ brief.talking_points[i].priority = "high"
                /\ AfterDraftPoints(i)

\* a concern of more than 50 characters, and one of 34 to 50, each yielded a
\* talking point placed after two draft points
C8_Witness ==
    /\ Returned
    /\ Len(generated.talking_points) >= 2
    /\ \E i \in ConcernPointIndices :
          Len(insights.concerns[prov.talking_points[i].idx].content) > 50
    /\ \E i \in ConcernPointIndices :
          /\ Len(insights.concerns[prov.talking_points[i].idx].content) > 33
          /\ Len(insights.concerns[prov.talking_points[i].idx].content) <= 50

\* C9: the final risks_opportunities are the first 6 of: the draft entries
\* in order, one risk per concern with the concern's priority as severity,
\* one opportunity per opportunity insight with its priority as severity.
C9_RiskOrder ==
    Returned =>
        LET final == brief.risks_opportunities
            nd    == Len(generated.risks_opportunities)
            nc    == Len(insights.concerns)
            total == nd + nc + Len(insights.opportunities)
        IN  /\ Len(final) = (IF total < 6 THEN total ELSE 6)
            /\ \A i \in DOMAIN final :
                  IF i <= nd
                  THEN final[i] = RiskOfDraft(generated.risks_opportunities[i])
                  ELSE IF i <= nd + nc
                  THEN /\ final[i].type = "risk"
                       /\ final[i].description = insights.concerns[i - nd].content
                       /\ final[i].severity = insights.concerns[i - nd].priority
                  ELSE /\ final[i].type = "opportunity"
                       /\ final[i].description =
                            insights.opportunities[i - nd - nc].content
                       /\ final[i].severity =
                            insights.opportunities[i - nd - nc].priority

\* entries of all three origins are kept and the cap cut an opportunity
C9_Witness ==
    /\ Returned
    /\ Len(insights.concerns) >= 2
    /\ Len(insights.opportunities) >= 2
    /\ HasOrigin(prov.risks_opportunities, "draft")
    /\ HasOrigin(prov.risks_opportunities, "opportunity")
    /\ Len(generated.risks_opportunities) + Len(insights.concerns)
         + Len(insights.opportunities) > 6

----------------------------------------------------------------------------
(* Properties of gather *)

\* a source is enabled when its toggle is set and its integration is enabled
EnabledSource(source) == toggles[source] /\ mcp[source] = "enabled"

FetchPhaseOver == gpc \in {"organize", "returned", "raised"}

\* C10: an error raised by the fetch of one source never prevents the other
\* enabled sources from being fetched and never escapes the fetch phase of
\* gather: every enabled source is attempted and the run goes on to the
\* stages after the fetches.
C10_FetchFailureIsolated ==
    /\ raised_in \in {None, "organize"}
    /\ gpc = "raised" => raised_in = "organize"
    /\ FetchPhaseOver => \A s \in Sources : EnabledSource(s) => s \in attempted
    /\ gpc \notin {"returned", "raised"} => ENABLED GatherNext

\* the e-mail fetch raised and the calendar and the CRM were fetched after it
C10_Witness ==
    /\ gpc = "organize"
    /\ "email" \in errored
    /\ {"calendar", "crm"} \subseteq attempted
    /\ crm_data.contacts # <<>>

RangeOf(seq) == {seq[i] : i \in DOMAIN seq}

\* the records the fetch of a source handed back to gather (for the CRM, the
\* contact records)
FetchReturned(source) ==
    CASE source = "email" -> email_data
      [] source = "calendar" -> calendar_data
      [] source = "crm" -> Get(crm_data, "contacts", <<>>)

\* C11: a source whose fetch raised an error, at whatever point of the fetch,
\* contributes no record to the data gather works with (no e-mail thread, no
\* event, no contact, deal or account) and is not in sources_accessed.
C11_ErroredSourceEmpty ==
    FetchPhaseOver =>
        \A s \in errored :
            /\ FetchReturned(s) = <<>>
            /\ s = "crm" => /\ Get(crm_data, "deals", <<>>) = <<>>
                            /\ Get(crm_data, "accounts", <<>>) = <<>>
            /\ s \notin RangeOf(sources_accessed)

\* C12: a source is in the sources_accessed of the GatheredContext gather
\* returns exactly when it was enabled and its fetch returned at least one
\* record (for the CRM, one contact); the list is the one gather built, not
\* the one in the organising chain's output.
C12_SourcesAccessed ==
    gpc = "returned" =>
        /\ \A s \in Sources :
              s \in RangeOf(context.sources_accessed)
                  <=> (EnabledSource(s) /\ FetchReturned(s) # <<>>)
        /\ context.sources_accessed = sources_accessed

\* the chain's output named all three sources, the e-mail fetch ran and found
\* nothing, and the returned context lists the calendar alone
C12_Witness ==
    /\ gpc = "returned"
    /\ context.data_quality_score = 7
    /\ EnabledSource("email")
    /\ "email" \in attempted
    /\ context.sources_accessed = <<"calendar">>

\* C13: with the three toggles false, the GatheredContext gather returns has
\* an empty sources_accessed and the minimum data_quality_score, 0.0.
C13_AllDisabled ==
    (gpc = "returned" /\ \A s \in Sources : ~toggles[s]) =>
        /\ context.sources_accessed = <<>>
        /\ context.data_quality_score = 0

----------------------------------------------------------------------------
(* Properties of a whole generate_brief run *)

\* a merge procedure has been entered
MergeStarted ==
    pc \in {"enhance_talking_points", "merge_risks_opportunities",
            "build_brief", "returned", "stored"}

NothingMerged ==
    /\ action_items = <<>>
    /\ talking_points = <<>>
    /\ risks_opportunities = <<>>

\* C14: when the extraction call or the synthesis call fails, generate_brief
\* fails as a whole: the run ends in the error, no Brief is built, no merge
\* runs (on empty data put in place of the failed result or on anything
\* else), and the endpoint stores no record.
C14_FailureIsWhole ==
    raised_in \in {"extract", "generate"} =>
        /\ pc = "raised"
        /\ brief = NoBrief
        /\ ~MergeStarted
        /\ NothingMerged
        /\ db = <<>>

\* the synthesis call of an endpoint request failed after extraction had
\* returned insights
C14_Witness ==
    /\ raised_in = "generate"
    /\ caller = "endpoint"
    /\ "extract" \in completed
    /\ insights \notin {NoInsights, Unvalidated}

\* the data_sources_used a brief or a stored record carries; none when it
\* has no such field
DataSourcesUsed(b) == Get(b, "data_sources_used", <<>>)

\* C15: the Brief generate_brief returns, and the record stored for it,
\* carry data_sources_used equal to the sources_accessed of the run's
\* GatheredContext.
C15_DataSourcesUsed ==
    /\ pc \in {"returned", "stored"} =>
          DataSourcesUsed(brief) = context.sources_accessed
    /\ \A i \in DOMAIN db :
          DataSourcesUsed(db[i]) = context.sources_accessed

\* C16: extraction and synthesis start only after gather has returned, and
\* no merge procedure starts before extraction and synthesis have both
\* returned a validated result.
C16_StageOrder ==
    /\ extract_call # NoRecord => gpc = "returned"
    /\ generate_call # NoRecord => gpc = "returned"
    /\ MergeStarted =>
          /\ completed = {"extract", "generate"}
          /\ raised_in = None
          /\ insights # Unvalidated
          /\ generated # Unvalidated

\* a run is past its merges with insights and a draft that are not empty
C16_Witness ==
    /\ pc = "build_brief"
    /\ insights.concerns # <<>>
    /\ generated.open_action_items # <<>>
    /\ action_items # <<>>
    /\ "calendar" \in errored

IsPrefix(s, t) == Len(s) <= Len(t) /\ SubSeq(t, 1, Len(s)) = s

\* C18: the e-mail list and the event list of the GatheredContext handed to
\* extraction and to synthesis hold at most 20 records each and are
\* prefixes of the records gather fetched from the sources.
C18_HandedListsCapped ==
    /\ extract_call # NoRecord =>
          /\ Len(extract_call.email_threads) <= 20
          /\ IsPrefix(extract_call.email_threads, email_data)
          /\ Len(extract_call.meeting_notes) <= 20
          /\ IsPrefix(extract_call.meeting_notes, MeetingNotesOf(calendar_data))
    /\ generate_call # NoRecord =>
          /\ Len(generate_call.context.email_threads) <= 20
          /\ IsPrefix(generate_call.context.email_threads, email_data)
          /\ Len(generate_call.context.calendar_events) <= 20
          /\ IsPrefix(generate_call.context.calendar_events, calendar_data)

----------------------------------------------------------------------------
(* Properties of gather_calendar_context *)

\* the e-mail addresses of the attendees of an event that have one
AttendeeEmails(event) ==
    LET attendees == Get(event, "attendees", <<>>)
    IN  {attendees[k].email :
            k \in {j \in DOMAIN attendees : "email" \in DOMAIN attendees[j]}}
        \ {NoneText}

\* an attendee e-mail of the event equals, ignoring case, a participant's
Attended(event, people) ==
    \E e \in AttendeeEmails(event), k \in DOMAIN people :
        Lower(e) = Lower(people[k])

RECURSIVE AttendedEvents(_, _)
AttendedEvents(fetched, people) ==
    IF fetched = <<>>
    THEN <<>>
    ELSE (IF Attended(Head(fetched), people) THEN <<Head(fetched)>> ELSE <<>>)
             \o AttendedEvents(Tail(fetched), people)

\* list_events was called and returned
Fetched(call) == call.integration = "enabled" /\ ~call.list_events.raises

\* an attendee of some fetched event has None for e-mail
SomeEmailIsNone(fetched) ==
    \E i \in DOMAIN fetched :
        \E k \in DOMAIN Get(fetched[i], "attendees", <<>>) :
            Get(fetched[i].attendees[k], "email", <<>>) = NoneText

----------------------------------------------------------------------------
(* Properties of the extraction entry points *)

Submitted == interactions # NoRecord

\* C19: extract submits exactly the first 15 e-mail threads followed by the
\* first 10 meeting notes of its inputs, in input order, and no record
\* beyond these caps.
C19_ExtractCaps ==
    (Submitted /\ ecall.name = "extract") =>
        LET threads == ecall.email_threads
            notes == ecall.meeting_notes
            k == Min(15, Len(threads))
            m == Min(10, Len(notes))
            parts == interactions.parts
        IN  /\ Len(parts) = k + m
            /\ \A i \in 1..k :
                  /\ parts[i].kind = "Email"
                  /\ parts[i].date = threads[i].date
            /\ \A j \in 1..m :
                  /\ parts[k + j].kind = "Meeting"
                  /\ parts[k + j].date = notes[j].date

\* extract was given more threads and more notes than the caps
C19_Witness ==
    /\ Submitted
    /\ ecall.name = "extract"
    /\ Len(ecall.email_threads) > 15
    /\ Len(ecall.meeting_notes) > 10
    /\ Len(interactions.parts) = 25

\* C20: in each of the three entry points every message body submitted has
\* at most 800 characters and every event-note text at most 1500.
C20_TextCuts ==
    Submitted =>
        \A i \in DOMAIN interactions.parts :
            LET part == interactions.parts[i]
            IN  /\ part.kind = "Email" => Len(part.body) <= 800
                /\ part.kind = "Meeting" => Len(part.notes) <= 1500

----------------------------------------------------------------------------
(* Properties of the Brief of a whole run *)

\* C21: every Brief generate_brief returns has a non-empty meeting_objective
\* and a non-empty executive_summary, whatever the synthesis returned.
C21_ObjectiveAndSummary ==
    pc \in {"returned", "stored"} =>
        /\ brief.meeting_objective \notin {"", None}
        /\ brief.executive_summary \notin {"", None}

----------------------------------------------------------------------------
(* Properties of _format_crm_context *)

\* C22: the CRM context is None exactly when the data has no contact record,
\* deals or not; otherwise it is one line per contact for the first 3
\* contacts, then one line per deal for the first 3 deals, in input order,
\* and so has at most 6 lines.
C22_CrmContext ==
    crm_text # NoRecord =>
        LET data == crm_arg.crm_data
            contacts == Get(data, "contacts", <<>>)
            deals == Get(data, "deals", <<>>)
            k == Min(3, Len(contacts))
            m == Min(3, Len(deals))
            text == crm_text.returned
        IN  /\ text = NoRecord <=> contacts = <<>>
            /\ text # NoRecord =>
                  /\ Len(text.lines) = k + m
                  /\ Len(text.lines) <= 6
                  /\ \A i \in 1..k :
                        /\ text.lines[i][1] = "- "
                        /\ text.lines[i][2] = Get(contacts[i], "name", "Unknown")
                  /\ \A j \in 1..m :
                        /\ text.lines[k + j][1] = "- Deal: "
                        /\ text.lines[k + j][2] = deals[j].name

\* four contacts and four deals were given and six lines came back
C22_Witness ==
    /\ crm_text # NoRecord
    /\ Len(Get(crm_arg.crm_data, "contacts", <<>>)) = 4
    /\ Len(Get(crm_arg.crm_data, "deals", <<>>)) = 4
    /\ crm_text.returned # NoRecord
    /\ Len(crm_text.returned.lines) = 6

----------------------------------------------------------------------------
(* Further properties of gather *)

\* C23: the data_quality_score of every GatheredContext gather returns lies
\* in [0, 1], that is 0..10 in tenths.  (The claim adds that two runs on the
\* same inputs and fetched data return the same score; the range is the
\* conjunct stated here.)
C23_ScoreInRange ==
    gpc = "returned" => context.data_quality_score \in 0..10

----------------------------------------------------------------------------
(* Further properties of _merge_action_items *)

\* the insight an entry of the final action_items was built from
InsightOfEntry(i) == insights.action_items[prov.open_action_items[i].idx]

\* C26: every insight-derived entry of the final action_items has the
\* insight's full content as description, the insight's first participant
\* (None when it has none) as assignee, the insight's status and source,
\* and no due date.
C26_InsightItemFields ==
    Returned =>
        \A i \in DOMAIN brief.open_action_items :
            prov.open_action_items[i].origin = "insight" =>
                LET insight == InsightOfEntry(i)
                    made == brief.open_action_items[i]
                IN  /\ made.description = insight.content
                    /\ made.assignee = IF Len(insight.participants) = 0
                                       THEN None
                                       ELSE Head(insight.participants)
                    /\ made.status = insight.status
                    /\ made.source = insight.source
                    /\ made.due_date = None

\* the final list holds an entry built from an insight of more than 50
\* characters with two participants and one built from an insight with none
C26_Witness ==
    /\ Returned
    /\ \E i, j \in DOMAIN brief.open_action_items :
          /\ prov.open_action_items[i].origin = "insight"
          /\ prov.open_action_items[j].origin = "insight"
          /\ Len(InsightOfEntry(i).content) > 50
          /\ Len(InsightOfEntry(i).participants) = 2
          /\ InsightOfEntry(j).participants = <<>>
          /\ brief.open_action_items[j].assignee = None

\* the descriptions of the draft items followed by the contents of the
\* insights: the order in which the merge visits them
VisitedTexts ==
    [i \in DOMAIN generated.open_action_items |-> DraftDescription(i)]
        \o [j \in DOMAIN insights.action_items |->
               insights.action_items[j].content]

\* the position in VisitedTexts of the item final entry i was built from
VisitedAt(i) ==
    IF prov.open_action_items[i].origin = "draft"
    THEN prov.open_action_items[i].idx
    ELSE Len(generated.open_action_items) + prov.open_action_items[i].idx

\* C27: the final action_items has exactly min(10, number of distinct dedup
\* keys among the draft and insight items) entries, and every entry is the
\* earliest item, in draft-then-insight order, that carries its key.
C27_MergeDropsOnlyDuplicates ==
    Returned =>
        LET texts == VisitedTexts
            key == [n \in DOMAIN texts |-> KeyOf(texts[n])]
            keys == {key[n] : n \in DOMAIN key}
            final == brief.open_action_items
        IN  /\ Len(final) = Min(10, Cardinality(keys))
            /\ \A i \in DOMAIN final :
                  LET at == VisitedAt(i)
                  IN  /\ final[i].description = texts[at]
                      /\ \A n \in 1..(at - 1) : key[n] # key[at]

\* an item was dropped for its key, another for the cap, and an insight
\* shared its key with a draft item
C27_Witness ==
    LET texts == VisitedTexts
        keys == {KeyOf(texts[n]) : n \in DOMAIN texts}
    IN  /\ Returned
        /\ Cardinality(keys) > 10
        /\ Cardinality(keys) < Len(texts)
        /\ Len(brief.open_action_items) = 10
        /\ \E j \in DOMAIN insights.action_items :
              KeyOf(insights.action_items[j].content) \in DraftKeys

----------------------------------------------------------------------------
(* Sources gather leaves alone *)

\* the source is switched off: its toggle is false, or its integration is
\* absent or not enabled
SwitchedOff(source) == ~toggles[source] \/ mcp[source] \in {"absent", "disabled"}

\* C28: in every state of a gather run, a source whose toggle is false, or
\* whose integration is absent or not enabled, has had no call made to its
\* client, has handed no record to gather and is not in sources_accessed,
\* neither in the list being built nor in that of the returned context.
C28_SwitchedOffNeverFetched ==
    \A s \in Sources :
        SwitchedOff(s) =>
            /\ s \notin attempted
            /\ s \notin errored
            /\ FetchReturned(s) = <<>>
            /\ s \notin RangeOf(sources_accessed)
            /\ gpc = "returned" => s \notin RangeOf(context.sources_accessed)

\* gather returned after fetching the CRM alone, the e-mail toggle being
\* false over an enabled integration and the calendar toggle being true
\* over an integration that is not enabled
C28_Witness ==
    /\ gpc = "returned"
    /\ ~toggles["email"] /\ mcp["email"] = "enabled"
    /\ toggles["calendar"] /\ mcp["calendar"] \in {"absent", "disabled"}
    /\ attempted = {"crm"}
    /\ context.sources_accessed = <<"crm">>

----------------------------------------------------------------------------
(* Properties of the briefs API *)

\* the fields of a Brief, models/brief.py:50-66
BriefFields ==
    {"id", "meeting_id", "title", "meeting_objective", "executive_summary",
     "participant_profiles", "relationship_timeline", "open_action_items",
     "talking_points", "risks_opportunities", "email_context", "crm_context",
     "previous_meetings_summary", "generated_at"}

\* the Brief the endpoint stored under this id
IssuedAs(brief_id) ==
    issued[CHOOSE n \in DOMAIN issued : issued[n].id = brief_id]

\* get_brief answered with a brief no update_brief has touched
ReadBack ==
    /\ response # NoRecord
    /\ response.op = "get_brief"
    /\ response.status = 200
    /\ response.body.updated_at # "t-updated"

C29_StoredCaps ==
    \A i \in DOMAIN db :
        /\ Len(db[i].talking_points) <= 8
        /\ Len(db[i].open_action_items) <= 10
        /\ Len(db[i].risks_opportunities) <= 6

----------------------------------------------------------------------------
(* Properties of concurrent generate_brief calls *)

\* the call of request r has returned its Brief
RunReturned(r) == runs[r].pc = "returned"

\* the three merged lists generate_brief returns, run alone, on the answers
\* request r received
AloneLists(r) ==
    [open_action_items |->
         Items(_merge_action_items(runs[r].generated.open_action_items,
                                   runs[r].insights.action_items)),
     talking_points |->
         Items(_enhance_talking_points(runs[r].generated.talking_points,
                                       runs[r].insights)),
     risks_opportunities |->
         Items(_merge_risks_opportunities(
                   runs[r].generated.risks_opportunities,
                   runs[r].insights.concerns,
                   runs[r].insights.opportunities))]

====
